---- MODULE Spec2Model ----
(***************************************************************************)
(* The block executor of the rollup node (package state): ApplyBlock with  *)
(* validate, execute, the validator-update sanity check and updateState,   *)
(* the response callback execute installs on the mempool connection, and   *)
(* the fraud-proof path of execute.                                        *)
(*                                                                         *)
(* Go values are modelled by value, Go pointers by references into a heap: *)
(* a State holds three *ValidatorSet pointers, so the heap maps each       *)
(* reference to the validator set it points to.                            *)
(***************************************************************************)
EXTENDS Integers, Sequences, FiniteSets, TLC

\* ------------------------------------------------------------------------
\* Bounds of the model
MaxTxs == 2            \* most transactions in a block
MaxHeight == 2         \* ApplyBlock is not called on a state beyond this height
MaxInitialHeight == 2  \* genesis InitialHeight ranges over 1..MaxInitialHeight
MaxHash == 1           \* application hashes are 0..MaxHash, 0 is 32 zero bytes
MaxVals == 2           \* validator keys 1..MaxVals are ed25519 keys
MaxPower == 1          \* voting powers of validator updates are -1..MaxPower
MaxRefs == 5           \* heap cells for validator sets
MaxRetainHeight == 1   \* the application's retain heights are 0..MaxRetainHeight
MaxEvidence == 1       \* a converted block carries 0..MaxEvidence evidence items
MaxUpdates == 2        \* the lists handed to the sanity check alone have 0..MaxUpdates updates
MaxRetryHeight == 1     \* the producer that retries creates MaxRetryHeight blocks

\* ------------------------------------------------------------------------
\* Values
NIL == 0                       \* the nil *ValidatorSet
ZeroHash == 0                  \* make(types.Hash, 32)
NilHash == -1                  \* the nil types.Hash of types.State{}
EmptyHash == -2                \* []byte{}
Hashes == 0..MaxHash
NoResult == -1                 \* a nil *abci.ExecTxResult
CodeTypeOK == 0
Refs == 1..MaxRefs

\* Public keys of validator updates: 0 does not decode, 1..MaxVals are
\* ed25519 keys, MaxVals+1 is a secp256k1 key.
UndecodableKey == 0
SecpKey == MaxVals + 1
PubKeys == 0..(MaxVals + 1)
KeyType(k) == IF k = SecpKey THEN "secp256k1" ELSE "ed25519"

\* Errors (nil is NoErr)
NoErr == "nil"
ErrFraudProofGenerated == "failed to ApplyBlock: halting node due to fraud"
ErrEmptyValSetGenerated == "applying the validator changes would result in empty set"
ErrAddingValidatorToBased == "cannot add validators to empty validator set"
ErrISRLength == "invalid length of ISR list"
ErrTxResultsLength == "expected tx results length to match size of transactions in block"
ErrValidatorUpdates == "error in validator updates"
ErrBroadcast == "failed to broadcast fraud proof"
ErrNoFraudProof == "fraud proof generation failed"
ErrTransport == "application transport error"
ErrPubKey == "pubkey decode error"
ErrMempool == "mempool error"
ErrPublish == "event bus error"

\* ------------------------------------------------------------------------
\* Sequence helpers
Range(s) == {s[i] : i \in DOMAIN s}

RECURSIVE SumSeq(_)
SumSeq(s) == IF s = <<>> THEN 0 ELSE Head(s) + SumSeq(Tail(s))

Max(S) == CHOOSE x \in S : \A y \in S : y <= x
Min(S) == CHOOSE x \in S : \A y \in S : x <= y

\* Go integer division truncates toward zero
TruncDiv(a, b) == IF a >= 0 THEN a \div b ELSE -((-a) \div b)

\* ------------------------------------------------------------------------
\* cmtypes.ValidatorSet: Validators is the list of members, Proposer the
\* address of the proposer or NIL.
Validator(a, p, q) == [Address |-> a, VotingPower |-> p, ProposerPriority |-> q]

EmptyValSet == [Validators |-> <<>>, Proposer |-> NIL]

Powers(vals) == [i \in DOMAIN vals.Validators |-> vals.Validators[i].VotingPower]
Priorities(vals) == [i \in DOMAIN vals.Validators |-> vals.Validators[i].ProposerPriority]
Addresses(vals) == {vals.Validators[i].Address : i \in DOMAIN vals.Validators}

TotalVotingPower(vals) == SumSeq(Powers(vals))

\* ValidatorSet.Hash commits to the members' keys and voting powers only
ValSetHash(vals) ==
    [i \in DOMAIN vals.Validators |->
        <<vals.Validators[i].Address, vals.Validators[i].VotingPower>>]

\* a set of validators with distinct addresses, ordered by address
RECURSIVE ByAddress(_)
ByAddress(S) ==
    IF S = {} THEN <<>>
    ELSE LET v == CHOOSE x \in S : \A y \in S : x.Address <= y.Address
         IN <<v>> \o ByAddress(S \ {v})

\* sort.Sort(ValidatorsByVotingPower): power descending, then address ascending
RECURSIVE ByVotingPower(_)
ByVotingPower(S) ==
    IF S = {} THEN <<>>
    ELSE LET v == CHOOSE x \in S : \A y \in S :
                     \/ x.VotingPower > y.VotingPower
                     \/ x.VotingPower = y.VotingPower /\ x.Address <= y.Address
         IN <<v>> \o ByVotingPower(S \ {v})

SetPriorities(vals, f(_)) ==
    [vals EXCEPT !.Validators =
        [i \in DOMAIN vals.Validators |->
            [vals.Validators[i] EXCEPT !.ProposerPriority = f(vals.Validators[i])]]]

\* ValidatorSet.RescalePriorities
RescalePriorities(vals, diffMax) ==
    LET P     == Range(Priorities(vals))
        diff  == Max(P) - Min(P)
        ratio == (diff + diffMax - 1) \div diffMax
        scaled(v) == TruncDiv(v.ProposerPriority, ratio)
    IN IF diffMax <= 0 \/ diff <= diffMax THEN vals
       ELSE SetPriorities(vals, scaled)

\* ValidatorSet.shiftByAvgProposerPriority (big.Int Div rounds down)
shiftByAvgProposerPriority(vals) ==
    LET avg == SumSeq(Priorities(vals)) \div Len(vals.Validators)
        shifted(v) == v.ProposerPriority - avg
    IN SetPriorities(vals, shifted)

\* ValidatorSet.incrementProposerPriority: one round
incrementProposerPriority(vals) ==
    LET added(v) == v.ProposerPriority + v.VotingPower
        bumped   == SetPriorities(vals, added)
        V        == Range(bumped.Validators)
        mostest  == CHOOSE x \in V : \A y \in V :
                        \/ x.ProposerPriority > y.ProposerPriority
                        \/ x.ProposerPriority = y.ProposerPriority
                           /\ x.Address <= y.Address
        total    == TotalVotingPower(vals)
        paid(v)  == IF v.Address = mostest.Address
                    THEN v.ProposerPriority - total ELSE v.ProposerPriority
    IN [SetPriorities(bumped, paid) EXCEPT !.Proposer = mostest.Address]

\* ValidatorSet.IncrementProposerPriority(1), called on non-empty sets only
IncrementProposerPriority(vals) ==
    incrementProposerPriority(
        shiftByAvgProposerPriority(
            RescalePriorities(vals, 2 * TotalVotingPower(vals))))

\* ValidatorSet.UpdateWithChangeSet(changes): the error it returns
ChangeSetError(vals, changes) ==
    LET deletes == {i \in DOMAIN changes : changes[i].VotingPower = 0}
        updates == {i \in DOMAIN changes : changes[i].VotingPower > 0}
        added   == {changes[i].Address : i \in updates} \ Addresses(vals)
    IN IF \E i, j \in DOMAIN changes : i < j /\ changes[i].Address = changes[j].Address
       THEN "duplicate entry in changes"
       ELSE IF \E i \in DOMAIN changes : changes[i].VotingPower < 0
       THEN "voting power can't be negative"
       ELSE IF \E i \in deletes : changes[i].Address \notin Addresses(vals)
       THEN "failed to find validator to remove"
       ELSE IF added = {} /\ Len(vals.Validators) = Cardinality(deletes)
       THEN ErrEmptyValSetGenerated
       ELSE NoErr

\* the sum of the voting powers of a set of validators
PowerOf(S) == TotalVotingPower([Validators |-> ByAddress(S), Proposer |-> NIL])

\* UpdateWithChangeSet: the members the changes leave as they are
keptValidators(vals, changes) ==
    {v \in Range(vals.Validators) :
        v.Address \notin {changes[i].Address : i \in DOMAIN changes}}

\* UpdateWithChangeSet: the changes that add or update a member
updatesOf(changes) == {changes[i] : i \in {j \in DOMAIN changes : changes[j].VotingPower > 0}}

\* computeNewPriorities: a new member starts at -1.125 * total, one that is
\* updated keeps its priority
newPriority(vals, c, total) ==
    IF c.Address \in Addresses(vals)
    THEN (CHOOSE v \in Range(vals.Validators) : v.Address = c.Address).ProposerPriority
    ELSE -(total + (total \div 8))

\* UpdateWithChangeSet: the members after the updates and the removals, where
\* total is their voting power
mergedValidators(vals, changes, total) ==
    keptValidators(vals, changes)
    \cup {Validator(c.Address, c.VotingPower, newPriority(vals, c, total)) :
             c \in updatesOf(changes)}

\* UpdateWithChangeSet: priorities are rescaled and centred, and the members
\* sorted by voting power
rescaleAndSort(vals, total) ==
    [vals EXCEPT !.Validators =
        ByVotingPower(Range(
            shiftByAvgProposerPriority(RescalePriorities(vals, 2 * total)).Validators))]

\* ValidatorSet.UpdateWithChangeSet(changes): the set after a change set that
\* is accepted (ChangeSetError is NoErr); the receiver is left as it is
\* otherwise.
ChangeSetApply(vals, changes) ==
    IF changes = <<>> THEN vals
    ELSE rescaleAndSort(
             [vals EXCEPT !.Validators =
                 ByAddress(mergedValidators(vals, changes,
                     PowerOf(keptValidators(vals, changes)) + PowerOf(updatesOf(changes))))],
             PowerOf(keptValidators(vals, changes)) + PowerOf(updatesOf(changes)))

\* cmtypes.NewValidatorSet(valz)
NewValidatorSet(valz) ==
    IF valz = <<>> THEN EmptyValSet
    ELSE IncrementProposerPriority(ChangeSetApply(EmptyValSet, valz))

\* ------------------------------------------------------------------------
\* The heap of validator sets.  A free cell holds the empty record.
FreeCell == [Validators |-> <<>>, Proposer |-> -1]
IsFree(h, r) == h[r] = FreeCell
Alloc(h) == Min({r \in Refs : IsFree(h, r)})

\* ValidatorSet.Copy: a new object with the same members
Copy(h, r) == [h EXCEPT ![Alloc(h)] = h[r]]

\* ------------------------------------------------------------------------
\* types.State and types.Block
ZeroState ==
    [Version |-> [Block |-> 0, App |-> 0],
     InitialHeight |-> 0,
     LastBlockHeight |-> 0,
     NextValidators |-> NIL,
     Validators |-> NIL,
     LastValidators |-> NIL,
     LastHeightValidatorsChanged |-> 0,
     PubKeyTypes |-> {},
     AppHash |-> NilHash,
     LastResultsHash |-> <<>>]

\* cmtypes.NewResults(deliverTxs).Hash(): a commitment to the results in order
ResultsHash(deliverTxs) == deliverTxs

\* Go's copy(dst, src) writes the first min(len(dst), len(src)) elements
CopyBytes(dst, src) ==
    [i \in DOMAIN dst |-> IF i <= Len(src) THEN src[i] ELSE dst[i]]

\* the LastResultsHash of a State literal that does not set it: types.Hash is
\* a slice type (make(types.Hash, 32)), its zero value is the nil slice
NilResultsHash == <<>>

\* header hashes that no state of the model has
BadResultsHash == <<NoResult>>
BadAggregatorsHash == <<<<0, 0>>>>

\* Block.ValidateBasic: the structural validity of the block
ValidateBasic(block) == block.StructOK

\* validate without the check of the height against LastBlockHeight + 1
validateNoHeightCheck(h, state, block) ==
    IF ~ValidateBasic(block) THEN "ValidateBasic failed"
    ELSE IF \/ block.Header.Version.App # state.Version.App
            \/ block.Header.Version.Block # state.Version.Block
    THEN "block version mismatch"
    ELSE IF state.LastBlockHeight <= 0 /\ block.Header.Height # state.InitialHeight
    THEN "initial block height mismatch"
    ELSE IF block.Header.AppHash # state.AppHash
    THEN "AppHash mismatch"
    ELSE IF block.Header.LastResultsHash # state.LastResultsHash
    THEN "LastResultsHash mismatch"
    ELSE IF block.Header.AggregatorsHash # ValSetHash(h[state.Validators])
    THEN "AggregatorsHash mismatch"
    ELSE NoErr

\* validate comparing the app hashes before the versions
validateAppHashFirst(h, state, block) ==
    IF ~ValidateBasic(block) THEN "ValidateBasic failed"
    ELSE IF block.Header.AppHash # state.AppHash
    THEN "AppHash mismatch"
    ELSE IF \/ block.Header.Version.App # state.Version.App
            \/ block.Header.Version.Block # state.Version.Block
    THEN "block version mismatch"
    ELSE IF state.LastBlockHeight <= 0 /\ block.Header.Height # state.InitialHeight
    THEN "initial block height mismatch"
    ELSE IF state.LastBlockHeight > 0 /\ block.Header.Height # state.LastBlockHeight + 1
    THEN "block height mismatch"
    ELSE IF block.Header.LastResultsHash # state.LastResultsHash
    THEN "LastResultsHash mismatch"
    ELSE IF block.Header.AggregatorsHash # ValSetHash(h[state.Validators])
    THEN "AggregatorsHash mismatch"
    ELSE NoErr

\* BlockExecutor.validate: the error it returns
validate(h, state, block) ==
    IF ~ValidateBasic(block) THEN "ValidateBasic failed"
    ELSE IF \/ block.Header.Version.App # state.Version.App
            \/ block.Header.Version.Block # state.Version.Block
    THEN "block version mismatch"
    ELSE IF state.LastBlockHeight <= 0 /\ block.Header.Height # state.InitialHeight
    THEN "initial block height mismatch"
    ELSE IF state.LastBlockHeight > 0 /\ block.Header.Height # state.LastBlockHeight + 1
    THEN "block height mismatch"
    ELSE IF block.Header.AppHash # state.AppHash
    THEN "AppHash mismatch"
    ELSE IF block.Header.LastResultsHash # state.LastResultsHash
    THEN "LastResultsHash mismatch"
    ELSE IF block.Header.AggregatorsHash # ValSetHash(h[state.Validators])
    THEN "AggregatorsHash mismatch"
    ELSE NoErr

\* validateValidatorUpdates looking at the powers of all updates before it
\* looks at a key
validateValidatorUpdatesPowersFirst(abciUpdates, pubKeyTypes) ==
    LET bad == {i \in DOMAIN abciUpdates :
                   /\ abciUpdates[i].Power # 0
                   /\ \/ abciUpdates[i].PubKey = UndecodableKey
                      \/ KeyType(abciUpdates[i].PubKey) \notin pubKeyTypes}
    IN IF \E i \in DOMAIN abciUpdates : abciUpdates[i].Power < 0
       THEN "voting power can't be negative"
       ELSE IF bad = {} THEN NoErr
       ELSE IF abciUpdates[Min(bad)].PubKey = UndecodableKey THEN ErrPubKey
       ELSE "unsupported pubkey type"

\* validateValidatorUpdates: the error of the first offending update
RECURSIVE validateValidatorUpdates(_, _)
validateValidatorUpdates(abciUpdates, pubKeyTypes) ==
    IF abciUpdates = <<>> THEN NoErr
    ELSE LET valUpdate == Head(abciUpdates)
         IN IF valUpdate.Power < 0 THEN "voting power can't be negative"
            ELSE IF valUpdate.Power = 0
            THEN validateValidatorUpdates(Tail(abciUpdates), pubKeyTypes)
            ELSE IF valUpdate.PubKey = UndecodableKey THEN ErrPubKey
            ELSE IF KeyType(valUpdate.PubKey) \notin pubKeyTypes
            THEN "unsupported pubkey type"
            ELSE validateValidatorUpdates(Tail(abciUpdates), pubKeyTypes)

\* cmtypes.PB2TM.ValidatorUpdates: every key is decoded, also of a removal
PB2TMValidatorUpdates(abciUpdates) ==
    IF \E i \in DOMAIN abciUpdates : abciUpdates[i].PubKey = UndecodableKey
    THEN [vals |-> <<>>, err |-> ErrPubKey]
    ELSE [vals |-> [i \in DOMAIN abciUpdates |->
                       Validator(abciUpdates[i].PubKey, abciUpdates[i].Power, 0)],
          err |-> NoErr]

\* updateState working on state.NextValidators itself instead of a copy, and
\* advancing the proposer priority before the change set is applied
updateStateInPlace(h, state, block, abciResponses, validatorUpdates) ==
    LET nValSet == state.NextValidators
        first   == IF Len(h[nValSet].Validators) > 0
                   THEN IncrementProposerPriority(h[nValSet]) ELSE h[nValSet]
        h1      == [h EXCEPT ![nValSet] = first]
        cerr    == ChangeSetError(first, validatorUpdates)
        applies == Len(first.Validators) > 0 /\ Len(validatorUpdates) > 0
        updated == IF ~applies THEN first
                   ELSE IF cerr = ErrEmptyValSetGenerated THEN EmptyValSet
                   ELSE ChangeSetApply(first, validatorUpdates)
        lastHeightValSetChanged ==
                   IF applies THEN block.Header.Height + 1 + 1
                   ELSE state.LastHeightValidatorsChanged
        h2      == [h1 EXCEPT ![nValSet] = updated]
        lastVal == Alloc(h2)
        h3      == Copy(h2, state.Validators)
        s       == [Version |-> state.Version,
                    InitialHeight |-> state.InitialHeight,
                    LastBlockHeight |-> block.Header.Height,
                    NextValidators |-> nValSet,
                    Validators |-> nValSet,
                    LastValidators |-> lastVal,
                    LastHeightValidatorsChanged |-> lastHeightValSetChanged,
                    PubKeyTypes |-> state.PubKeyTypes,
                    AppHash |-> ZeroHash,
                    LastResultsHash |-> CopyBytes(NilResultsHash,
                                   ResultsHash(abciResponses.DeliverTxs))]
    IN IF applies /\ cerr \notin {NoErr, ErrEmptyValSetGenerated}
       THEN [heap |-> h1, state |-> state, err |-> cerr, panic |-> FALSE]
       ELSE IF Len(first.Validators) = 0 /\ Len(validatorUpdates) > 0
       THEN [heap |-> h1, state |-> state, err |-> ErrAddingValidatorToBased,
             panic |-> FALSE]
       ELSE IF \E i \in DOMAIN abciResponses.DeliverTxs :
                  abciResponses.DeliverTxs[i] = NoResult
       THEN [heap |-> h3, state |-> s, err |-> NoErr, panic |-> TRUE]
       ELSE [heap |-> h3, state |-> s, err |-> NoErr, panic |-> FALSE]

\* updateState taking every block on a set with members as a change of it
appliesChangesAlways(old, validatorUpdates) ==
    Len(old.Validators) > 0

\* updateState: whether UpdateWithChangeSet is called on the copy
appliesChanges(old, validatorUpdates) ==
    Len(old.Validators) > 0 /\ Len(validatorUpdates) > 0

\* updateState accepting validator updates on a set without members
updateStateErrorNoBasedCheck(old, validatorUpdates) ==
    IF /\ appliesChanges(old, validatorUpdates)
       /\ ChangeSetError(old, validatorUpdates) \notin {NoErr, ErrEmptyValSetGenerated}
    THEN ChangeSetError(old, validatorUpdates)
    ELSE NoErr

\* updateState: the error it returns
updateStateError(old, validatorUpdates) ==
    IF /\ appliesChanges(old, validatorUpdates)
       /\ ChangeSetError(old, validatorUpdates) \notin {NoErr, ErrEmptyValSetGenerated}
    THEN ChangeSetError(old, validatorUpdates)
    ELSE IF Len(old.Validators) = 0 /\ Len(validatorUpdates) > 0
    THEN ErrAddingValidatorToBased
    ELSE NoErr

\* updateState keeping the copy as it is when the change set removes every
\* member
changedValSetKept(old, validatorUpdates) ==
    IF ~appliesChanges(old, validatorUpdates) THEN old
    ELSE IF ChangeSetError(old, validatorUpdates) = ErrEmptyValSetGenerated
    THEN old
    ELSE ChangeSetApply(old, validatorUpdates)

\* updateState: nValSet after the change set, an empty set when the change
\* set removes every member
changedValSet(old, validatorUpdates) ==
    IF ~appliesChanges(old, validatorUpdates) THEN old
    ELSE IF ChangeSetError(old, validatorUpdates) = ErrEmptyValSetGenerated
    THEN EmptyValSet
    ELSE ChangeSetApply(old, validatorUpdates)

\* updateState advancing the proposer priority by two rounds
advancedValSetTwice(vals) ==
    IF Len(vals.Validators) > 0
    THEN IncrementProposerPriority(IncrementProposerPriority(vals))
    ELSE vals

\* updateState: the proposer priority advances on a set that has members
advancedValSet(vals) ==
    IF Len(vals.Validators) > 0 THEN IncrementProposerPriority(vals) ELSE vals

\* updateState keeping the current validator set for one more height, the
\* next one becoming current a height later
newStateLate(state, block, abciResponses, nValSet, lastVal, changed) ==
    [Version |-> state.Version,
     InitialHeight |-> state.InitialHeight,
     LastBlockHeight |-> block.Header.Height,
     NextValidators |-> nValSet,
     Validators |-> state.NextValidators,
     LastValidators |-> lastVal,
     LastHeightValidatorsChanged |->
         IF changed THEN block.Header.Height + 1 + 1
         ELSE state.LastHeightValidatorsChanged,
     PubKeyTypes |-> state.PubKeyTypes,
     AppHash |-> ZeroHash,
     LastResultsHash |-> CopyBytes(NilResultsHash,
                                   ResultsHash(abciResponses.DeliverTxs))]

\* updateState: the State it composes
newState(state, block, abciResponses, nValSet, lastVal, changed) ==
    [Version |-> state.Version,
     InitialHeight |-> state.InitialHeight,
     LastBlockHeight |-> block.Header.Height,
     NextValidators |-> nValSet,
     Validators |-> nValSet,
     LastValidators |-> lastVal,
     LastHeightValidatorsChanged |->
         IF changed THEN block.Header.Height + 1 + 1
         ELSE state.LastHeightValidatorsChanged,
     PubKeyTypes |-> state.PubKeyTypes,
     AppHash |-> ZeroHash,
     LastResultsHash |-> CopyBytes(NilResultsHash,
                                   ResultsHash(abciResponses.DeliverTxs))]

\* updateState once nValSet is final: h2 is the heap that holds it, err the
\* error found on the way, changed whether a change set was applied
updateStateReturn(h1, h2, nValSet, err, changed, state, block, abciResponses) ==
    IF err # NoErr
    THEN [heap |-> h1, state |-> state, err |-> err, panic |-> FALSE]
    ELSE [heap  |-> Copy(h2, state.Validators),
          state |-> newState(state, block, abciResponses, nValSet, Alloc(h2), changed),
          err   |-> NoErr,
          panic |-> \E i \in DOMAIN abciResponses.DeliverTxs :
                       abciResponses.DeliverTxs[i] = NoResult]

\* updateState after nValSet := state.NextValidators.Copy(), h1 the heap
\* with the copy
updateStateCopied(h1, nValSet, state, block, abciResponses, validatorUpdates) ==
    updateStateReturn(
        h1,
        [h1 EXCEPT ![nValSet] =
            advancedValSet(changedValSet(h1[nValSet], validatorUpdates))],
        nValSet,
        updateStateError(h1[nValSet], validatorUpdates),
        appliesChanges(h1[nValSet], validatorUpdates),
        state, block, abciResponses)

\* BlockExecutor.updateState.  The result carries the heap after the call,
\* the returned state and error, and whether the call panicked
\* (cmtypes.NewResults dereferences every entry of DeliverTxs).
updateState(h, state, block, abciResponses, validatorUpdates) ==
    updateStateCopied(Copy(h, state.NextValidators), Alloc(h),
                      state, block, abciResponses, validatorUpdates)

\* ------------------------------------------------------------------------
\* ApplyBlock: what it returns after updateState returned us
applyUpdated(us) ==
    IF us.err # NoErr
    THEN [heap |-> us.heap, state |-> ZeroState, resp |-> FALSE, err |-> us.err,
          panic |-> FALSE, steps |-> <<"validateValidatorUpdates", "updateState">>]
    ELSE [heap |-> us.heap, state |-> us.state, resp |-> TRUE, err |-> NoErr,
          panic |-> us.panic, steps |-> <<"validateValidatorUpdates", "updateState">>]

\* ApplyBlock after the sanity check passed: tm is the translation of the
\* validator updates
applyTranslated(h, state, block, abciResponses, tm) ==
    IF tm.err # NoErr
    THEN [heap |-> h, state |-> state, resp |-> FALSE, err |-> tm.err,
          panic |-> FALSE, steps |-> <<"validateValidatorUpdates">>]
    ELSE applyUpdated(updateState(h, state, block, abciResponses, tm.vals))

\* applyTail going on to updateState whatever the sanity check says
applyTailUnchecked(h, state, block, abciResponses) ==
    applyTranslated(h, state, block, abciResponses,
                    PB2TMValidatorUpdates(abciResponses.EndBlock.ValidatorUpdates))

\* applyTail returning the zero State when the sanity check fails
applyTailZeroState(h, state, block, abciResponses) ==
    IF validateValidatorUpdates(abciResponses.EndBlock.ValidatorUpdates,
                                state.PubKeyTypes) # NoErr
    THEN [heap |-> h, state |-> ZeroState, resp |-> FALSE, err |-> ErrValidatorUpdates,
          panic |-> FALSE, steps |-> <<"validateValidatorUpdates">>]
    ELSE applyTranslated(h, state, block, abciResponses,
                         PB2TMValidatorUpdates(abciResponses.EndBlock.ValidatorUpdates))

\* ApplyBlock after execute has returned the bundle: the validator-update
\* sanity check, the translation of the updates and updateState.
\* steps lists the pipeline steps that ran.
applyTail(h, state, block, abciResponses) ==
    IF validateValidatorUpdates(abciResponses.EndBlock.ValidatorUpdates,
                                state.PubKeyTypes) # NoErr
    THEN [heap |-> h, state |-> state, resp |-> FALSE, err |-> ErrValidatorUpdates,
          panic |-> FALSE, steps |-> <<"validateValidatorUpdates">>]
    ELSE applyTranslated(h, state, block, abciResponses,
                         PB2TMValidatorUpdates(abciResponses.EndBlock.ValidatorUpdates))

\* ApplyBlock handing the input state back with the error
applyErrorInputState(state, err) == [state |-> state, resp |-> FALSE, err |-> err]

\* what ApplyBlock returns when validate or execute fails
applyError(state, err) == [state |-> ZeroState, resp |-> FALSE, err |-> err]

\* execute checking the length of a declared ISR list whether or not fraud
\* proofs are enabled
isrLengthCheckedAlways(fraudProofs, block) ==
    /\ ~block.IntermediateStateRoots.nil
    /\ Len(block.IntermediateStateRoots.RawRootsList) # Len(block.Txs) + 3

\* execute taking a declared ISR list of any length
isrLengthUnchecked(fraudProofs, block) == FALSE

\* execute: the check of the declared ISR list before any application call
isrLengthError(fraudProofs, block) ==
    LET currentIsrs == block.IntermediateStateRoots
        expectedLength == Len(block.Txs) + 3
    IN fraudProofs /\ ~currentIsrs.nil /\ Len(currentIsrs.RawRootsList) # expectedLength

\* execute taking whatever tx results the application returns
txResultsLengthIgnored(block, finalizeBlockResponse) == FALSE

\* execute: the check of the tx results of the FinalizeBlock response
txResultsLengthError(block, finalizeBlockResponse) ==
    Len(block.Txs) # Len(finalizeBlockResponse.TxResults)

\* execute leaving abciResponses.DeliverTxs empty
makeDeliverTxsEmpty(block) == <<>>

\* execute: abciResponses.DeliverTxs = make([]*abci.ExecTxResult, len(Txs))
makeDeliverTxs(block) == [i \in 1..Len(block.Txs) |-> NoResult]

\* buildLastCommitInfo going on whatever the size of the commit
commitInfoNeverPanics(h, state, block) == FALSE

\* buildLastCommitInfo panics when the commit and the validator set differ in
\* size, except at the initial height
commitInfoPanics(h, state, block) ==
    /\ block.Header.Height # state.InitialHeight
    /\ block.CommitSigs # Len(h[state.Validators].Validators)

\* buildLastCommitInfo when it does not panic: no votes at the initial
\* height, and otherwise for every member of state.Validators, in their
\* order, a vote with this validator and the flag of the signature at its
\* position
buildLastCommitInfo(h, state, block) ==
    IF block.Header.Height = state.InitialHeight THEN <<>>
    ELSE [i \in DOMAIN h[state.Validators].Validators |->
             [Validator |-> <<h[state.Validators].Validators[i].Address,
                              h[state.Validators].Validators[i].VotingPower>>,
              Signature |-> i]]

\* BlockExecutor.isFraudProofTrigger; index is 0-based as in the source.
\* currentIsrs[index] panics when index is out of range.
isFraudProofTriggerPanics(currentIsrs, index) ==
    ~currentIsrs.nil /\ index >= Len(currentIsrs.RawRootsList)

\* isFraudProofTrigger reading the declared ISR one position early
isFraudProofTriggerOffByOne(generatedIsr, currentIsrs, index) ==
    IF currentIsrs.nil THEN FALSE
    ELSE currentIsrs.RawRootsList[index] # generatedIsr

isFraudProofTrigger(generatedIsr, currentIsrs, index) ==
    IF currentIsrs.nil THEN FALSE
    ELSE currentIsrs.RawRootsList[index + 1] # generatedIsr

\* generateFraudProof leaving the DeliverTx requests out of the request
generateFraudProofRequestNoTxs(deliverTxRequests, endBlockRequest) ==
    [BeginBlockRequest |-> TRUE,
     DeliverTxRequests |-> <<>>,
     EndBlockRequest   |-> ~deliverTxRequests.nil /\ endBlockRequest]

\* BlockExecutor.generateFraudProof: the request sent to the application
\* (the BeginBlock request is always part of it)
generateFraudProofRequest(deliverTxRequests, endBlockRequest) ==
    [BeginBlockRequest |-> TRUE,
     DeliverTxRequests |-> IF deliverTxRequests.nil THEN <<>> ELSE deliverTxRequests.reqs,
     EndBlockRequest   |-> ~deliverTxRequests.nil /\ endBlockRequest]

\* execute returning after the last transaction, without the capture that
\* follows EndBlock
nextCaptureNoEnd(block, deliverTxRequests, endBlockRequest) ==
    LET n == Len(block.Txs)
        k == Len(deliverTxRequests.reqs)
    IN IF k < n
       THEN [reqs |-> [nil |-> FALSE,
                       reqs |-> Append(deliverTxRequests.reqs, block.Txs[k + 1])],
             end |-> FALSE, done |-> FALSE]
       ELSE [reqs |-> [nil |-> FALSE, reqs |-> deliverTxRequests.reqs],
             end |-> TRUE, done |-> TRUE]

\* execute: the arguments of the next genAndGossipFraudProofIfNeeded call
\* after the previous one returned nil; done when the last one has returned
nextCapture(block, deliverTxRequests, endBlockRequest) ==
    LET n == Len(block.Txs)
        k == Len(deliverTxRequests.reqs)
    IN IF endBlockRequest
       THEN [reqs |-> deliverTxRequests, end |-> TRUE, done |-> TRUE]
       ELSE IF k < n
       THEN [reqs |-> [nil |-> FALSE,
                       reqs |-> Append(deliverTxRequests.reqs, block.Txs[k + 1])],
             end |-> FALSE, done |-> FALSE]
       ELSE [reqs |-> [nil |-> FALSE, reqs |-> deliverTxRequests.reqs],
             end |-> TRUE, done |-> FALSE]

\* execute with fraud proofs disabled: every capture call returns nil at once
allRequests(block) == [nil |-> FALSE, reqs |-> block.Txs]

\* execute writing the captured ISRs without the one captured before the
\* block was executed
writeBackWithoutInitial(fraudProofs, block, ISRs) ==
    IF fraudProofs /\ block.IntermediateStateRoots.nil
    THEN [block EXCEPT !.IntermediateStateRoots =
             [nil |-> FALSE,
              RawRootsList |-> IF ISRs = <<>> THEN ISRs ELSE Tail(ISRs)]]
    ELSE block

\* execute writing the captured ISRs to the block whether or not it came
\* with a list
writeBackAlways(fraudProofs, block, ISRs) ==
    IF fraudProofs
    THEN [block EXCEPT !.IntermediateStateRoots = [nil |-> FALSE, RawRootsList |-> ISRs]]
    ELSE block

\* execute: the producer's write-back of the captured ISRs
writeBack(fraudProofs, block, ISRs) ==
    IF fraudProofs /\ block.IntermediateStateRoots.nil
    THEN [block EXCEPT !.IntermediateStateRoots = [nil |-> FALSE, RawRootsList |-> ISRs]]
    ELSE block

\* ------------------------------------------------------------------------
\* Inputs

\* a block carries k transactions, the one with the highest id first
Descending(k) == [i \in 1..k |-> k + 1 - i]
TxSeqs == {Descending(k) : k \in 0..MaxTxs}

\* the application's verdict on a transaction
AppCode(tx) == tx % 2

NilRoots == [nil |-> TRUE, RawRootsList |-> <<>>]
Roots(l) == [nil |-> FALSE, RawRootsList |-> l]

\* the ISR lists a block with n transactions may declare: none, the lists of
\* the expected length with at most one non-zero root, and lists that are
\* empty, too short or too long
IsrChoices(n) ==
    {NilRoots}
    \cup {Roots([i \in 1..(n + 3) |-> IF i = k THEN x ELSE ZeroHash]) :
             k \in 1..(n + 3), x \in Hashes}
    \cup {Roots(<<>>), Roots([i \in 1..(n + 2) |-> ZeroHash]),
          Roots([i \in 1..(n + 4) |-> ZeroHash])}

Headers(h, st) ==
    [Version : {st.Version,
                [st.Version EXCEPT !.Block = @ + 1],
                [st.Version EXCEPT !.App = @ + 1]},
     Height : 0..(MaxHeight + 1),
     AppHash : Hashes,
     LastResultsHash : {st.LastResultsHash, BadResultsHash},
     AggregatorsHash : {ValSetHash(h[st.Validators]), BadAggregatorsHash}]

Block(hd, ok, sigs, txs, isrs) ==
    [Header |-> hd, StructOK |-> ok, CommitSigs |-> sigs, Txs |-> txs,
     IntermediateStateRoots |-> isrs]

NoBlock ==
    Block([Version |-> [Block |-> 0, App |-> 0], Height |-> 0, AppHash |-> NilHash,
           LastResultsHash |-> <<>>, AggregatorsHash |-> <<>>],
          FALSE, 0, <<>>, NilRoots)

\* The blocks handed to ApplyBlock: every header with an empty body, and for
\* the headers that validate accepts (validate reads the header only) every
\* body whose last commit has one signature per validator, and an empty body
\* whose last commit has one signature more.
Blocks(h, st) ==
    LET size == Len(h[st.Validators].Validators)
        plain(hd, ok) == Block(hd, ok, size, <<>>, NilRoots)
        good == {hd \in Headers(h, st) : validate(h, st, plain(hd, TRUE)) = NoErr}
    IN {plain(hd, ok) : hd \in Headers(h, st), ok \in BOOLEAN}
       \cup {Block(hd, TRUE, size + 1, <<>>, NilRoots) : hd \in good}
       \cup UNION {{Block(hd, TRUE, size, txs, isrs) :
                       hd \in good, isrs \in IsrChoices(Len(txs))} : txs \in TxSeqs}

ValUpdate(k, p) == [PubKey |-> k, Power |-> p]

\* the validator updates an application may answer with
UpdateLists ==
    {<<>>,
     <<ValUpdate(1, -1)>>,                \* negative power
     <<ValUpdate(UndecodableKey, 0)>>,    \* a removal whose key does not decode
     <<ValUpdate(1, 0)>>,                 \* removes validator 1
     <<ValUpdate(MaxVals, MaxPower)>>,    \* adds or updates validator MaxVals
     <<ValUpdate(SecpKey, 0)>>,           \* removes a key that is no validator
     <<ValUpdate(SecpKey, MaxPower)>>}    \* adds a key of an unsupported type

\* the lists of validator updates handed to the sanity check alone: every
\* list of up to MaxUpdates updates
SanityLists ==
    UNION {[1..n -> [PubKey : PubKeys, Power : -1..MaxPower]] : n \in 0..MaxUpdates}

\* the PubKeyTypes of the consensus params of a genesis document
PubKeyTypeSets == {{"ed25519"}, {"ed25519", "secp256k1"}, {"secp256k1"}}

\* the tx results an application may answer with for the transactions txs:
\* its verdicts on them in order, or one result fewer, or one more
TxResultLists(txs) ==
    LET n == Len(txs)
    IN {[i \in 1..k |-> IF i <= n THEN AppCode(txs[i]) ELSE CodeTypeOK] :
           k \in {m \in (n - 1)..(n + 1) : m >= 0}}

\* ------------------------------------------------------------------------
\* CreateBlock, Commit and publishEvents

\* the lastCommit argument of CreateBlock: the number of its signatures and
\* whether the block carrying it passes Block.ValidateBasic
LastCommit(sigs, valid) == [Sigs |-> sigs, Valid |-> valid]

\* CreateBlock writing a zero AppHash into the header
createBlockZeroAppHash(h, state, height, lastCommit, mempoolTxs) ==
    Block([Version |-> state.Version,
           Height |-> height,
           AppHash |-> ZeroHash,
           LastResultsHash |-> state.LastResultsHash,
           AggregatorsHash |-> ValSetHash(h[state.Validators])],
          lastCommit.Valid, lastCommit.Sigs, mempoolTxs, NilRoots)

\* BlockExecutor.CreateBlock
createBlock(h, state, height, lastCommit, mempoolTxs) ==
    Block([Version |-> state.Version,
           Height |-> height,
           AppHash |-> state.AppHash,
           LastResultsHash |-> state.LastResultsHash,
           AggregatorsHash |-> ValSetHash(h[state.Validators])],
          lastCommit.Valid, lastCommit.Sigs, mempoolTxs, NilRoots)

\* the height the caller creates the next block for
nextHeight(state) ==
    IF state.LastBlockHeight = 0 THEN state.InitialHeight
    ELSE state.LastBlockHeight + 1

\* a call Commit made: the operation, for a Tx event its index and its
\* transaction, the retain height, the app hash or the tx result the call
\* carries or answers with, and whether it returned an error
CommitCall(op, index, tx, data) ==
    [op |-> op, index |-> index, tx |-> tx, data |-> data, result |-> "ok"]
CommitStep(op) == CommitCall(op, 0, 0, NoResult)

\* Commit returning the values of the failed commit
commitErrorKeepsLocals(locals, err) ==
    [appHash |-> locals.AppHash, retainHeight |-> locals.RetainHeight, err |-> err]

\* Commit when commit failed: return []byte{}, 0, err
commitError(locals, err) ==
    [appHash |-> EmptyHash, retainHeight |-> 0, err |-> err]

\* Commit returning the error of publishEvents
commitResultPublishError(locals, publishErr) ==
    [appHash |-> locals.AppHash, retainHeight |-> locals.RetainHeight,
     err |-> publishErr]

\* Commit after publishEvents: the error is logged; return appHash,
\* retainHeight, nil
commitResult(locals, publishErr) ==
    [appHash |-> locals.AppHash, retainHeight |-> locals.RetainHeight,
     err |-> NoErr]

\* Commit leaving its State as it was passed
writeAppHashSkipped(state, appHash) == state

\* Commit: state.AppHash = appHash, on Commit's copy of the State
writeAppHash(state, appHash) == [state EXCEPT !.AppHash = appHash]

\* publishEvents: the events of a block in the order of the publish calls;
\* evidence is the number of evidence items of the converted block
blockEvents(state, evidence) ==
    <<CommitCall("PublishEventNewBlock", 0, 0, state.AppHash),
      CommitStep("PublishEventNewBlockHeader")>>
    \o [i \in 1..evidence |-> CommitCall("PublishEventNewEvidence", i - 1, 0, NoResult)]

\* publishEvents with the Tx events in reverse order
txEventsReversed(block, resp) ==
    [i \in DOMAIN resp.DeliverTxs |->
        CommitCall("PublishEventTx", Len(resp.DeliverTxs) - i,
                   block.Txs[Len(resp.DeliverTxs) + 1 - i],
                   resp.DeliverTxs[Len(resp.DeliverTxs) + 1 - i])]

\* publishEvents: for i, dtx := range resp.DeliverTxs
txEvents(block, resp) ==
    [i \in DOMAIN resp.DeliverTxs |->
        CommitCall("PublishEventTx", i - 1, block.Txs[i], resp.DeliverTxs[i])]

\* the publish calls numbered F fail; multierr.Append collects the errors
\* and the later calls are made
published(events, F) ==
    [i \in DOMAIN events |->
        IF i \in F THEN [events[i] EXCEPT !.result = "error"] ELSE events[i]]

\* which publish calls fail: none, any single one, or all
FailurePatterns(n) == {{}, 1..n} \cup {{i} : i \in 1..n}

\* *dtx of a nil entry of resp.DeliverTxs panics
publishPanics(resp) == \E i \in DOMAIN resp.DeliverTxs : resp.DeliverTxs[i] = NoResult

\* genesis validator lists: none (a based rollup) or key 1 with power 1
GenesisValidators == {<<>>, <<Validator(1, 1, 0)>>}

\* ------------------------------------------------------------------------
\* State
VARIABLES
    fraudProofsEnabled,    \* BlockExecutor.fraudProofsEnabled
    state,                 \* the caller's State, the argument of ApplyBlock
    heap,                  \* the validator sets the State pointers refer to
    block,                 \* the block passed to ApplyBlock (by pointer)
    pc,                    \* where the running ApplyBlock call is
    callback,              \* a response callback is installed on the mempool connection
    abciResponses,         \* the bundle of the latest execute (captured by the callback)
    txIdx,                 \* execute's txIdx (captured by the callback)
    validTxs,              \* execute's validTxs (captured by the callback)
    invalidTxs,            \* execute's invalidTxs (captured by the callback)
    currentIsrs,           \* execute's currentIsrs, the declared ISR list
    currentIsrIndex,       \* execute's currentIsrIndex
    ISRs,                  \* execute's ISRs, the captured ISR list
    deliverTxRequests,     \* the deliverTxRequests argument of the pending capture
    finalizeBlockResponse, \* the application's answer to FinalizeBlock
    ret,                   \* what ApplyBlock returned
    calls,                 \* the calls the running ApplyBlock made, in order
    preHeap,               \* the heap when ApplyBlock was called
    eventBus,              \* BlockExecutor.eventBus is not nil
    mempoolLocked,         \* the mempool lock is held
    commitLocals,          \* commit's commitResp.RetainHeight and appHash
    commitCalls,           \* the calls the running Commit made, in order
    commitRet,             \* what Commit returned
    firstAttempt           \* history: the attempt on the block whose Commit failed

vars == <<fraudProofsEnabled, state, heap, block, pc, callback,
          abciResponses, txIdx, validTxs, invalidTxs, currentIsrs, currentIsrIndex,
          ISRs, deliverTxRequests, finalizeBlockResponse, ret, calls, preHeap,
          eventBus, mempoolLocked, commitLocals, commitCalls, commitRet,
          firstAttempt>>

config == <<fraudProofsEnabled, eventBus>>
commit == <<mempoolLocked, commitLocals, commitCalls, commitRet>>
history == <<firstAttempt>>
captured == <<abciResponses, txIdx, validTxs, invalidTxs>>
locals == <<currentIsrs, currentIsrIndex, ISRs, deliverTxRequests, finalizeBlockResponse>>

\* a call record: the operation, the ISR position it is about, for a
\* GenerateFraudProof request whether it carries the BeginBlock request, the
\* transactions of its DeliverTx requests and whether it carries EndBlock,
\* for a FinalizeBlock request the votes of its DecidedLastCommit,
\* and whether the call returned an error ("error"), an empty answer
\* ("none") or an answer ("ok")
Call(op, pos, begin, txs, end) ==
    [op |-> op, pos |-> pos, begin |-> begin, txs |-> txs, end |-> end,
     votes |-> <<>>, result |-> "ok"]
WithVotes(call, votes) == [call EXCEPT !.votes = votes]
Errored(call) == [call EXCEPT !.result = "error"]
Empty(call) == [call EXCEPT !.result = "none"]
Step(op) == Call(op, 0, FALSE, <<>>, FALSE)

NoResponses ==
    [BeginBlock |-> FALSE, DeliverTxs |-> <<>>,
     EndBlock |-> [set |-> FALSE, ValidatorUpdates |-> <<>>]]
NoRequests == [nil |-> TRUE, reqs |-> <<>>]
NoFinalizeResponse == [nil |-> TRUE, TxResults |-> <<>>, ValidatorUpdates |-> <<>>]
NoReturn == [state |-> ZeroState, resp |-> FALSE, err |-> NoErr]
NoCommitLocals ==
    [state |-> ZeroState, RetainHeight |-> 0, AppHash |-> NilHash, Evidence |-> 0]
NoCommitReturn == [appHash |-> NilHash, retainHeight |-> 0, err |-> NoErr]

\* no attempt on the block is recorded: n counts the attempts, input is the
\* State ApplyBlock was called with, block the block after ApplyBlock, state
\* and resp what ApplyBlock returned, ISRs and response what the application
\* answered, and same whether the retry got the answers of the first attempt
NoAttempt ==
    [n |-> 0, input |-> ZeroState, block |-> NoBlock, state |-> ZeroState,
     resp |-> NoResponses, ISRs |-> <<>>, response |-> NoFinalizeResponse,
     same |-> FALSE]

\* the State composed from the genesis document
GenesisState(initialHeight) ==
    [Version |-> [Block |-> 1, App |-> 1],
     InitialHeight |-> initialHeight,
     LastBlockHeight |-> 0,
     NextValidators |-> 1,
     Validators |-> 2,
     LastValidators |-> 3,
     LastHeightValidatorsChanged |-> initialHeight,
     PubKeyTypes |-> {"ed25519"},
     AppHash |-> ZeroHash,
     LastResultsHash |-> <<>>]

GenesisHeap(valz) ==
    [r \in Refs |->
        IF r = 1 THEN IF valz = <<>> THEN EmptyValSet
                      ELSE IncrementProposerPriority(NewValidatorSet(valz))
        ELSE IF r = 2 THEN NewValidatorSet(valz)
        ELSE IF r = 3 THEN EmptyValSet
        ELSE FreeCell]

\* NewBlockExecutor followed by SetFraudProofService (the fraud-proof service
\* is wired before blocks are applied), and the genesis State of the caller
Constructed ==
    /\ fraudProofsEnabled \in BOOLEAN
    /\ \E valz \in GenesisValidators : heap = GenesisHeap(valz)
    /\ block = NoBlock
    /\ pc = "idle"
    /\ callback = FALSE
    /\ abciResponses = NoResponses
    /\ txIdx = 0
    /\ validTxs = 0
    /\ invalidTxs = 0
    /\ currentIsrs = NilRoots
    /\ currentIsrIndex = 0
    /\ ISRs = <<>>
    /\ deliverTxRequests = NoRequests
    /\ finalizeBlockResponse = NoFinalizeResponse
    /\ ret = NoReturn
    /\ calls = <<>>
    /\ preHeap = heap
    /\ mempoolLocked = FALSE
    /\ commitLocals = NoCommitLocals
    /\ commitCalls = <<>>
    /\ firstAttempt = NoAttempt
    /\ commitRet = NoCommitReturn

\* the caller's State is the genesis State
Genesis == \E ih \in 1..MaxInitialHeight : state = GenesisState(ih)

\* an executor constructed without an event bus
Init ==
    /\ Constructed
    /\ Genesis
    /\ eventBus = FALSE

\* ApplyBlock returns
Return(r) ==
    /\ pc' = "returned"
    /\ ret' = r

\* a Go panic: the process stops
Panic ==
    /\ pc' = "panic"
    /\ UNCHANGED ret

\* execute between the initial capture and the FinalizeBlock request:
\* buildLastCommitInfo
BuildLastCommitInfo(b) ==
    IF commitInfoPanics(heap, state, b) THEN Panic
    ELSE pc' = "FinalizeBlock" /\ UNCHANGED ret

\* ApplyBlock is called with a block of B: validate, then execute up to its
\* first application call
ApplyBlockOf(B) ==
    /\ state.LastBlockHeight < MaxHeight
    /\ \E b \in B :
        /\ block' = b
        /\ preHeap' = heap
        /\ calls' = <<Step("validate")>>
        /\ IF validate(heap, state, b) # NoErr
           THEN /\ Return(applyError(state, validate(heap, state, b)))
                /\ UNCHANGED <<callback, captured, locals>>
           ELSE IF isrLengthError(fraudProofsEnabled, b)
           THEN /\ Return(applyError(state, ErrISRLength))
                /\ UNCHANGED <<callback, captured, locals>>
           ELSE /\ abciResponses' = [NoResponses EXCEPT !.DeliverTxs = makeDeliverTxs(b)]
                /\ txIdx' = 0
                /\ validTxs' = 0
                /\ invalidTxs' = 0
                /\ currentIsrs' = b.IntermediateStateRoots
                /\ currentIsrIndex' = 0
                /\ ISRs' = <<>>
                /\ callback' = TRUE
                /\ deliverTxRequests' = NoRequests
                /\ finalizeBlockResponse' = NoFinalizeResponse
                /\ IF fraudProofsEnabled
                   THEN pc' = "GetAppHash0" /\ UNCHANGED ret
                   ELSE BuildLastCommitInfo(b)
    /\ UNCHANGED <<config, history, commit, state, heap>>

\* ApplyBlock is called with a block received from the network
ApplyBlock ==
    /\ pc = "idle"
    /\ ApplyBlockOf(Blocks(heap, state))

\* execute: the capture of the ISR before the block is executed
InitialGetAppHash ==
    /\ pc = "GetAppHash0"
    /\ \/ /\ Return(applyError(state, ErrTransport))
          /\ calls' = Append(calls, Errored(Call("GetAppHash", currentIsrIndex,
                                                 FALSE, <<>>, FALSE)))
          /\ UNCHANGED <<ISRs, currentIsrIndex>>
       \/ \E isr \in Hashes :
             /\ calls' = Append(calls, Call("GetAppHash", currentIsrIndex,
                                            FALSE, <<>>, FALSE))
             /\ ISRs' = Append(ISRs, isr)
             /\ currentIsrIndex' = currentIsrIndex + 1
             /\ BuildLastCommitInfo(block)
    /\ UNCHANGED <<config, history, commit, state, heap, block, callback, captured, currentIsrs,
                   deliverTxRequests, finalizeBlockResponse, preHeap>>

\* ApplyBlock ends with the outcome t of its steps after execute
FinishWith(t, made) ==
    /\ heap' = t.heap
    /\ calls' = made \o [i \in DOMAIN t.steps |-> Step(t.steps[i])]
    /\ IF t.panic THEN Panic
       ELSE Return([state |-> t.state, resp |-> t.resp, err |-> t.err])

\* the rest of ApplyBlock once execute has returned the bundle resp
Finish(b, resp, made) == FinishWith(applyTail(heap, state, b, resp), made)

\* execute: the FinalizeBlock request and what follows it up to the next
\* application call.  With fraud proofs disabled nothing is captured and
\* ApplyBlock runs to its end.
FinalizeBlock ==
    /\ pc = "FinalizeBlock"
    /\ LET made == Append(calls, WithVotes(Call("FinalizeBlock", 0, FALSE, block.Txs, FALSE),
                                           buildLastCommitInfo(heap, state, block)))
       IN \/ /\ Return(applyError(state, ErrTransport))
             /\ calls' = Append(calls, Errored(made[Len(made)]))
             /\ UNCHANGED <<heap, block, captured, deliverTxRequests,
                            finalizeBlockResponse>>
          \/ \E txr \in TxResultLists(block.Txs), vu \in UpdateLists :
                LET fbr == [nil |-> FALSE, TxResults |-> txr, ValidatorUpdates |-> vu]
                    begun == [abciResponses EXCEPT !.BeginBlock = TRUE]
                    ended == [begun EXCEPT !.EndBlock =
                                 [set |-> TRUE, ValidatorUpdates |-> vu]]
                IN /\ txResultsLengthError(block, fbr) => vu = <<>>
                   /\ finalizeBlockResponse' = fbr
                   /\ UNCHANGED <<block, txIdx, validTxs, invalidTxs>>
                   /\ IF txResultsLengthError(block, fbr)
                      THEN /\ Return(applyError(state, ErrTxResultsLength))
                           /\ calls' = made
                           /\ UNCHANGED <<heap, abciResponses, deliverTxRequests>>
                      ELSE IF fraudProofsEnabled
                      THEN /\ abciResponses' = begun
                           /\ deliverTxRequests' = NoRequests
                           /\ pc' = "GetAppHash"
                           /\ calls' = made
                           /\ UNCHANGED <<heap, ret>>
                      ELSE /\ abciResponses' = ended
                           /\ deliverTxRequests' = allRequests(block)
                           /\ Finish(block, ended, made)
    /\ UNCHANGED <<config, history, commit, state, callback, currentIsrs, currentIsrIndex, ISRs, preHeap>>

\* execute: one call of genAndGossipFraudProofIfNeeded with fraud proofs
\* enabled, up to the next application call
GenAndGossipGetAppHash ==
    /\ pc = "GetAppHash"
    /\ LET made == Append(calls, Call("GetAppHash", currentIsrIndex, FALSE, <<>>, FALSE))
           endBlockRequest == abciResponses.EndBlock.set
       IN \/ /\ Return(applyError(state, ErrTransport))
             /\ calls' = Append(calls, Errored(Call("GetAppHash", currentIsrIndex,
                                                    FALSE, <<>>, FALSE)))
             /\ UNCHANGED <<heap, block, captured, ISRs, currentIsrIndex,
                            deliverTxRequests>>
          \/ \E isr \in Hashes :
                /\ ISRs' = Append(ISRs, isr)
                /\ UNCHANGED <<txIdx, validTxs, invalidTxs>>
                /\ IF isFraudProofTriggerPanics(currentIsrs, currentIsrIndex)
                   THEN /\ Panic
                        /\ calls' = made
                        /\ UNCHANGED <<heap, block, abciResponses, currentIsrIndex,
                                       deliverTxRequests>>
                   ELSE IF isFraudProofTrigger(isr, currentIsrs, currentIsrIndex)
                   THEN /\ pc' = "GenerateFraudProof"
                        /\ calls' = made
                        /\ UNCHANGED <<heap, block, abciResponses, currentIsrIndex,
                                       deliverTxRequests, ret>>
                   ELSE LET nx == nextCapture(block, deliverTxRequests, endBlockRequest)
                            ended == [abciResponses EXCEPT !.EndBlock =
                                         [set |-> TRUE,
                                          ValidatorUpdates |->
                                              finalizeBlockResponse.ValidatorUpdates]]
                        IN /\ currentIsrIndex' = currentIsrIndex + 1
                           /\ deliverTxRequests' = nx.reqs
                           /\ IF nx.done
                              THEN /\ block' = writeBack(fraudProofsEnabled, block, ISRs')
                                   /\ UNCHANGED abciResponses
                                   /\ Finish(block', abciResponses, made)
                              ELSE /\ abciResponses' =
                                          IF nx.end THEN ended ELSE abciResponses
                                   /\ pc' = "GetAppHash"
                                   /\ calls' = made
                                   /\ UNCHANGED <<heap, block, ret>>
    /\ UNCHANGED <<config, history, commit, state, callback, currentIsrs, finalizeBlockResponse, preHeap>>

\* generateFraudProof: the GenerateFraudProof request and its answer
GenerateFraudProof ==
    /\ pc = "GenerateFraudProof"
    /\ LET req == generateFraudProofRequest(deliverTxRequests, abciResponses.EndBlock.set)
           call == Call("GenerateFraudProof", currentIsrIndex, req.BeginBlockRequest,
                        req.DeliverTxRequests, req.EndBlockRequest)
       IN \/ /\ Return(applyError(state, ErrTransport))
             /\ calls' = Append(calls, Errored(call))
          \/ /\ Return(applyError(state, ErrNoFraudProof))
             /\ calls' = Append(calls, Empty(call))
          \/ /\ pc' = "Broadcast"
             /\ calls' = Append(calls, call)
             /\ UNCHANGED ret
    /\ UNCHANGED <<config, history, commit, state, heap, block, callback, captured, locals, preHeap>>

\* genAndGossipFraudProofIfNeeded dropping the error of Broadcast
BroadcastErrorDropped ==
    /\ pc = "Broadcast"
    /\ \/ /\ Return(applyError(state, ErrFraudProofGenerated))
          /\ calls' = Append(calls, Errored(Step("Broadcast")))
       \/ /\ Return(applyError(state, ErrFraudProofGenerated))
          /\ calls' = Append(calls, Step("Broadcast"))
    /\ UNCHANGED <<config, history, commit, state, heap, block, callback, captured, locals, preHeap>>

\* genAndGossipFraudProofIfNeeded: the proof is gossiped
Broadcast ==
    /\ pc = "Broadcast"
    /\ \/ /\ Return(applyError(state, ErrBroadcast))
          /\ calls' = Append(calls, Errored(Step("Broadcast")))
       \/ /\ Return(applyError(state, ErrFraudProofGenerated))
          /\ calls' = Append(calls, Step("Broadcast"))
    /\ UNCHANGED <<config, history, commit, state, heap, block, callback, captured, locals, preHeap>>

\* the callback installed by execute runs for a DeliverTx response that
\* arrives on the mempool connection while the application works on the
\* block: its verdict on the next transaction, or a response too many
DeliverTxResponse ==
    /\ callback
    /\ pc = "FinalizeBlock"
    /\ IF txIdx < Len(abciResponses.DeliverTxs)
       THEN LET code == AppCode(block.Txs[txIdx + 1])
            IN /\ validTxs' = IF code = CodeTypeOK THEN validTxs + 1 ELSE validTxs
               /\ invalidTxs' = IF code = CodeTypeOK THEN invalidTxs ELSE invalidTxs + 1
               /\ abciResponses' = [abciResponses EXCEPT !.DeliverTxs[txIdx + 1] = code]
               /\ txIdx' = txIdx + 1
               /\ UNCHANGED <<pc, ret>>
       ELSE /\ Panic
            /\ UNCHANGED captured
    /\ UNCHANGED <<config, history, commit, state, heap, block, callback, locals, calls, preHeap>>

\* the heap without the validator sets st does not refer to
Collect(h, st) ==
    LET nv == 1
        v  == IF st.Validators = st.NextValidators THEN nv ELSE 2
        lv == IF st.LastValidators = st.NextValidators THEN nv
              ELSE IF st.LastValidators = st.Validators THEN v
              ELSE v + 1
    IN [heap |-> [r \in Refs |->
                     IF r = nv THEN h[st.NextValidators]
                     ELSE IF r = v THEN h[st.Validators]
                     ELSE IF r = lv THEN h[st.LastValidators]
                     ELSE FreeCell],
        state |-> [st EXCEPT !.NextValidators = nv, !.Validators = v,
                             !.LastValidators = lv]]

\* The caller takes the returned state as the state of the next call when
\* ApplyBlock succeeded, and keeps its own when it failed.  The locals of the
\* call that returned are dead, and so are the cells its callback captured:
\* responses arrive while FinalizeBlock is pending, after the next execute
\* has replaced the callback.
CallerTakes ==
    /\ pc = "returned"
    /\ LET kept == Collect(heap, IF ret.err = NoErr THEN ret.state ELSE state)
       IN /\ state' = kept.state
          /\ heap' = kept.heap
          /\ preHeap' = kept.heap
    /\ pc' = "idle"
    /\ ret' = NoReturn
    /\ block' = NoBlock
    /\ calls' = <<>>
    /\ currentIsrs' = NilRoots
    /\ currentIsrIndex' = 0
    /\ ISRs' = <<>>
    /\ deliverTxRequests' = NoRequests
    /\ finalizeBlockResponse' = NoFinalizeResponse
    /\ abciResponses' = NoResponses
    /\ txIdx' = 0
    /\ validTxs' = 0
    /\ invalidTxs' = 0
    /\ UNCHANGED <<config, commit, callback>>

\* the caller goes on to the next block
CallerNext ==
    /\ CallerTakes
    /\ UNCHANGED history

\* the producer creates the block of the next height from its State and the
\* transactions it reaps from the mempool
CreateBlock ==
    /\ pc = "idle"
    /\ state.LastBlockHeight < MaxHeight
    /\ \E txs \in TxSeqs, valid \in BOOLEAN,
          sigs \in {1, Len(heap[state.Validators].Validators)} :
          block' = createBlock(heap, state, nextHeight(state),
                               LastCommit(sigs, valid), txs)
    /\ pc' = "created"
    /\ UNCHANGED <<config, history, commit, state, heap, callback, captured, locals, ret,
                   calls, preHeap>>

\* ApplyBlock is called with the block CreateBlock returned
ApplyCreatedBlock ==
    /\ pc = "created"
    /\ ApplyBlockOf({block})

\* the caller drops a block that ApplyBlock rejected
CallerDrop ==
    /\ ret.err # NoErr
    /\ CallerNext

\* Commit returns r; the deferred Unlock of commit has run
CommitReturn(made, r) ==
    /\ commitCalls' = Append(made, CommitStep("Unlock"))
    /\ mempoolLocked' = FALSE
    /\ commitRet' = r
    /\ pc' = "committed"

\* commit goes on to its next call
CommitStepTo(made, next) ==
    /\ commitCalls' = made
    /\ pc' = next
    /\ UNCHANGED <<mempoolLocked, commitRet>>

\* Commit is called with the State and the responses ApplyBlock returned:
\* commit takes the mempool lock.  The locals of the ApplyBlock call that
\* returned are dead.
CommitCalled ==
    /\ pc = "returned"
    /\ ret.err = NoErr
    /\ mempoolLocked' = TRUE
    /\ commitLocals' = [NoCommitLocals EXCEPT !.state = ret.state]
    /\ commitCalls' = <<CommitStep("Lock")>>
    /\ commitRet' = NoCommitReturn
    /\ pc' = "FlushAppConn"
    /\ calls' = <<>>
    /\ currentIsrs' = NilRoots
    /\ currentIsrIndex' = 0
    /\ ISRs' = <<>>
    /\ deliverTxRequests' = NoRequests
    /\ finalizeBlockResponse' = NoFinalizeResponse
    /\ preHeap' = heap
    /\ UNCHANGED <<config, state, heap, block, callback, captured, ret>>

\* Commit is called for a block that is not retried
Commit ==
    /\ CommitCalled
    /\ UNCHANGED history

\* commit leaving the mempool locked when FlushAppConn fails
FlushAppConnKeepsLock ==
    /\ pc = "FlushAppConn"
    /\ \/ /\ commitCalls' = Append(commitCalls, Errored(CommitStep("FlushAppConn")))
          /\ commitRet' = commitError(commitLocals, ErrMempool)
          /\ pc' = "committed"
          /\ UNCHANGED mempoolLocked
       \/ CommitStepTo(Append(commitCalls, CommitStep("FlushAppConn")), "Commit")
    /\ UNCHANGED <<config, history, state, heap, block, callback, captured, locals, ret,
                   calls, preHeap, commitLocals>>

\* commit: e.mempool.FlushAppConn()
FlushAppConn ==
    /\ pc = "FlushAppConn"
    /\ \/ CommitReturn(Append(commitCalls, Errored(CommitStep("FlushAppConn"))),
                       commitError(commitLocals, ErrMempool))
       \/ CommitStepTo(Append(commitCalls, CommitStep("FlushAppConn")), "Commit")
    /\ UNCHANGED <<config, history, state, heap, block, callback, captured, locals, ret,
                   calls, preHeap, commitLocals>>

\* commit: the Commit request to the application
AppCommit ==
    /\ pc = "Commit"
    /\ \/ /\ CommitReturn(Append(commitCalls, Errored(CommitStep("Commit"))),
                          commitError(commitLocals, ErrTransport))
          /\ UNCHANGED commitLocals
       \/ \E rh \in 0..MaxRetainHeight :
             /\ commitLocals' = [commitLocals EXCEPT !.RetainHeight = rh]
             /\ CommitStepTo(Append(commitCalls, CommitCall("Commit", 0, 0, rh)),
                             "CommitGetAppHash")
    /\ UNCHANGED <<config, history, state, heap, block, callback, captured, locals, ret,
                   calls, preHeap>>

\* commit: the GetAppHash request to the application
CommitGetAppHash ==
    /\ pc = "CommitGetAppHash"
    /\ \/ /\ CommitReturn(Append(commitCalls, Errored(CommitStep("GetAppHash"))),
                          commitError(commitLocals, ErrTransport))
          /\ UNCHANGED commitLocals
       \/ \E hash \in Hashes :
             /\ commitLocals' = [commitLocals EXCEPT !.AppHash = hash]
             /\ CommitStepTo(Append(commitCalls, CommitCall("GetAppHash", 0, 0, hash)),
                             "Update")
    /\ UNCHANGED <<config, history, state, heap, block, callback, captured, locals, ret,
                   calls, preHeap>>

\* commit: e.mempool.Update, and the return of commit to Commit, which
\* writes the app hash into its State
MempoolUpdate ==
    /\ pc = "Update"
    /\ \/ /\ CommitReturn(Append(commitCalls, Errored(CommitStep("Update"))),
                          commitError(commitLocals, ErrMempool))
          /\ UNCHANGED commitLocals
       \/ /\ commitCalls' = commitCalls \o <<CommitStep("Update"), CommitStep("Unlock")>>
          /\ mempoolLocked' = FALSE
          /\ commitLocals' = [commitLocals EXCEPT
                                 !.state = writeAppHash(@, commitLocals.AppHash)]
          /\ pc' = "publishEvents"
          /\ UNCHANGED commitRet
    /\ UNCHANGED <<config, history, state, heap, block, callback, captured, locals, ret,
                   calls, preHeap>>

\* Commit: publishEvents and the return of Commit
PublishEvents ==
    /\ pc = "publishEvents"
    /\ IF ~eventBus
       THEN /\ commitRet' = commitResult(commitLocals, NoErr)
            /\ pc' = "committed"
            /\ UNCHANGED <<commitCalls, commitLocals>>
       ELSE \E evidence \in 0..MaxEvidence :
               LET events == blockEvents(commitLocals.state, evidence)
                             \o txEvents(block, abciResponses)
               IN /\ commitLocals' = [commitLocals EXCEPT !.Evidence = evidence]
                  /\ IF publishPanics(abciResponses)
                     THEN /\ pc' = "panic"
                          /\ UNCHANGED <<commitCalls, commitRet>>
                     ELSE \E F \in FailurePatterns(Len(events)) :
                             /\ commitCalls' = commitCalls \o published(events, F)
                             /\ commitRet' = commitResult(commitLocals,
                                                 IF F = {} THEN NoErr ELSE ErrPublish)
                             /\ pc' = "committed"
    /\ UNCHANGED <<config, history, mempoolLocked, state, heap, block, callback, captured,
                   locals, ret, calls, preHeap>>

\* The caller stores the State that ApplyBlock returned, with the app hash
\* that Commit returned, when Commit succeeded, and keeps its own State when
\* Commit failed.
CallerStores ==
    /\ pc = "committed"
    /\ LET kept == Collect(heap, IF commitRet.err = NoErr
                                 THEN [ret.state EXCEPT !.AppHash = commitRet.appHash]
                                 ELSE state)
       IN /\ state' = kept.state
          /\ heap' = kept.heap
          /\ preHeap' = kept.heap
    /\ pc' = "idle"
    /\ ret' = NoReturn
    /\ block' = NoBlock
    /\ abciResponses' = NoResponses
    /\ txIdx' = 0
    /\ validTxs' = 0
    /\ invalidTxs' = 0
    /\ commitLocals' = NoCommitLocals
    /\ commitCalls' = <<>>
    /\ commitRet' = NoCommitReturn
    /\ UNCHANGED <<config, mempoolLocked, callback, locals, calls>>

\* the caller goes on to the next block after Commit
CallerStore ==
    /\ CallerStores
    /\ UNCHANGED history

\* the validator sets of st in place of its pointers
Deref(h, st) ==
    [st EXCEPT !.NextValidators = h[@], !.Validators = h[@], !.LastValidators = h[@]]

\* the answers of the application to the running ApplyBlock are those it gave
\* to the first attempt: no call failed, the ISRs are the first ISRs and the
\* FinalizeBlock response, once there, is the first one
SameAnswers ==
    /\ \A i \in DOMAIN calls : calls[i].result = "ok"
    /\ Len(ISRs) <= Len(firstAttempt.ISRs)
    /\ \A i \in DOMAIN ISRs : ISRs[i] = firstAttempt.ISRs[i]
    /\ finalizeBlockResponse.nil \/ finalizeBlockResponse = firstAttempt.response

\* Commit is called by a caller that retries: the first attempt on the
\* block is recorded, and for the retry whether it got the same answers
RecordedCommit ==
    /\ CommitCalled
    /\ firstAttempt' =
          IF firstAttempt.n = 0
          THEN [n |-> 1, input |-> Deref(preHeap, state), block |-> block,
                state |-> Deref(heap, ret.state), resp |-> abciResponses,
                ISRs |-> ISRs, response |-> finalizeBlockResponse, same |-> FALSE]
          ELSE [firstAttempt EXCEPT !.same = SameAnswers]

\* Commit failed on the first attempt: the caller keeps its State and the
\* block, whose ISR list the first attempt has filled when fraud proofs are
\* enabled, and retries ApplyBlock and Commit on them
CallerRetry ==
    /\ pc = "committed"
    /\ commitRet.err # NoErr
    /\ firstAttempt.n = 1
    /\ LET kept == Collect(heap, state)
       IN /\ state' = kept.state
          /\ heap' = kept.heap
          /\ preHeap' = kept.heap
    /\ pc' = "retry"
    /\ firstAttempt' = [firstAttempt EXCEPT !.n = 2]
    /\ ret' = NoReturn
    /\ abciResponses' = NoResponses
    /\ txIdx' = 0
    /\ validTxs' = 0
    /\ invalidTxs' = 0
    /\ commitLocals' = NoCommitLocals
    /\ commitCalls' = <<>>
    /\ commitRet' = NoCommitReturn
    /\ UNCHANGED <<config, mempoolLocked, block, callback, locals, calls>>

\* the producer that retries creates the blocks up to MaxRetryHeight
CreateRetriedBlock ==
    /\ state.LastBlockHeight < MaxRetryHeight
    /\ CreateBlock

\* the retry: ApplyBlock is called with the block of the first attempt
RetryApplyBlock ==
    /\ pc = "retry"
    /\ ApplyBlockOf({block})

\* the caller drops the block when ApplyBlock rejected it, at the first
\* attempt or at the retry
RetryDrop ==
    /\ ret.err # NoErr
    /\ CallerTakes
    /\ firstAttempt' = NoAttempt

\* the caller stores the State when Commit succeeded, and gives the block up
\* when Commit failed at the retry too
RetryStore ==
    /\ commitRet.err = NoErr \/ firstAttempt.n = 2
    /\ CallerStores
    /\ firstAttempt' = NoAttempt

Next ==
    \/ ApplyBlock
    \/ InitialGetAppHash
    \/ FinalizeBlock
    \/ GenAndGossipGetAppHash
    \/ GenerateFraudProof
    \/ Broadcast
    \/ DeliverTxResponse
    \/ CallerNext

Spec == Init /\ [][Next]_vars

\* an executor constructed with or without an event bus
CommitInit ==
    /\ Constructed
    /\ Genesis
    /\ eventBus \in BOOLEAN

\* the block producer: the cycle CreateBlock, ApplyBlock, Commit.  A block of
\* CreateBlock declares no ISRs, so isFraudProofTrigger never holds and
\* execute generates no fraud proof.
CommitNext ==
    \/ CreateBlock
    \/ ApplyCreatedBlock
    \/ InitialGetAppHash
    \/ FinalizeBlock
    \/ GenAndGossipGetAppHash
    \/ DeliverTxResponse
    \/ CallerDrop
    \/ Commit
    \/ FlushAppConn
    \/ AppCommit
    \/ CommitGetAppHash
    \/ MempoolUpdate
    \/ PublishEvents
    \/ CallerStore

CommitSpec == CommitInit /\ [][CommitNext]_vars

\* the block producer that retries ApplyBlock and Commit once on the block
\* whose Commit failed.  The retried block declares the ISRs of the first
\* attempt, so execute compares them with those of the retry and generates a
\* fraud proof when the application answers differently.
RetryNext ==
    \/ CreateRetriedBlock
    \/ ApplyCreatedBlock
    \/ RetryApplyBlock
    \/ InitialGetAppHash
    \/ FinalizeBlock
    \/ GenAndGossipGetAppHash
    \/ GenerateFraudProof
    \/ Broadcast
    \/ DeliverTxResponse
    \/ RetryDrop
    \/ RecordedCommit
    \/ FlushAppConn
    \/ AppCommit
    \/ CommitGetAppHash
    \/ MempoolUpdate
    \/ PublishEvents
    \/ CallerRetry
    \/ RetryStore

RetrySpec == CommitInit /\ [][RetryNext]_vars

\* a genesis State whose consensus params list any of the key types
SanityInit ==
    /\ Constructed
    /\ eventBus = FALSE
    /\ \E types \in PubKeyTypeSets, ih \in 1..MaxInitialHeight :
          state = [GenesisState(ih) EXCEPT !.PubKeyTypes = types]

\* ApplyBlock from the bundle execute returned to the sanity check of its
\* validator updates
SanityCheck ==
    /\ pc = "idle"
    /\ \E updates \in SanityLists :
          /\ abciResponses' = [NoResponses EXCEPT !.EndBlock =
                                  [set |-> TRUE, ValidatorUpdates |-> updates]]
          /\ ret' = [NoReturn EXCEPT !.err =
                        validateValidatorUpdates(updates, state.PubKeyTypes)]
    /\ pc' = "checked"
    /\ UNCHANGED <<config, history, commit, state, heap, block, callback, txIdx, validTxs,
                   invalidTxs, locals, calls, preHeap>>

\* the next list is checked
SanityNext ==
    /\ pc = "checked"
    /\ pc' = "idle"
    /\ abciResponses' = NoResponses
    /\ ret' = NoReturn
    /\ UNCHANGED <<config, history, commit, state, heap, block, callback, txIdx, validTxs,
                   invalidTxs, locals, calls, preHeap>>

SanitySpec == SanityInit /\ [][SanityCheck \/ SanityNext]_vars

\* ------------------------------------------------------------------------
\* Properties

Returned == pc = "returned"
Succeeded == Returned /\ ret.err = NoErr
Failed == Returned /\ ret.err # NoErr

\* the operations of calls, in order
Ops == [i \in DOMAIN calls |-> calls[i].op]
Made(op) == {i \in DOMAIN calls : calls[i].op = op}

\* execute returned a bundle to ApplyBlock (the sanity check follows it)
ExecuteSucceeded == Made("validateValidatorUpdates") # {}

\* the validator sets the caller's state refers to
StateRefs == {state.NextValidators, state.Validators, state.LastValidators}

\* C1 as stated: every successful ApplyBlock returns a state whose
\* LastBlockHeight is the input state's LastBlockHeight plus 1, from a genesis
\* state with any InitialHeight too.
C1_HeightPlusOne ==
    Succeeded => ret.state.LastBlockHeight = state.LastBlockHeight + 1

\* C1 amended: every successful ApplyBlock returns a state whose
\* LastBlockHeight is the input state's LastBlockHeight plus 1 when that is
\* positive, and the input state's InitialHeight when it is 0.
C1_HeightAdvance ==
    Succeeded =>
        ret.state.LastBlockHeight =
            IF state.LastBlockHeight > 0 THEN state.LastBlockHeight + 1
            ELSE state.InitialHeight

\* a second ApplyBlock in a row succeeded on the state the first returned
C1_Witness ==
    Succeeded /\ state.LastBlockHeight = 1 /\ ret.state.LastBlockHeight = 2

\* C2: after an ApplyBlock that returned an error, the validator sets the
\* caller's State refers to are what they were when ApplyBlock was called
\* (the State itself is passed by value).
C2_InputStateUnchanged ==
    Failed => \A r \in StateRefs : heap[r] = preHeap[r]

\* updateState failed on a non-empty validator set, after it had copied it
C2_Witness ==
    /\ Failed
    /\ Made("updateState") # {}
    /\ ret.err = "failed to find validator to remove"
    /\ heap # preHeap

\* validate rejected the block of the call that returned
ValidateFailed == Returned /\ validate(preHeap, state, block) # NoErr

\* C3 as stated: when validate rejects the block, ApplyBlock returns the
\* input state together with the error.
C3_ReturnsInputState ==
    ValidateFailed => ret.state = state

\* C3 amended: when validate rejects the block, ApplyBlock returns the zero
\* State, no responses and the error of validate, and the validator sets of
\* the input state are untouched.
C3_ReturnsZeroState ==
    ValidateFailed =>
        /\ ret = [state |-> ZeroState, resp |-> FALSE,
                  err |-> validate(preHeap, state, block)]
        /\ heap = preHeap

\* a block whose header AppHash differs from the state's was rejected
C3_Witness ==
    ValidateFailed /\ ret.err = "AppHash mismatch" /\ block.Header.AppHash # state.AppHash

\* the steps of ApplyBlock in pipeline order; the application and fraud
\* service calls are made by execute
Rank(op) ==
    IF op = "validate" THEN 1
    ELSE IF op = "validateValidatorUpdates" THEN 3
    ELSE IF op = "updateState" THEN 4
    ELSE 2

\* the calls are in pipeline order, validate first, and FinalizeBlock,
\* the sanity check and updateState happen at most once
InPipelineOrder ==
    /\ calls # <<>> => calls[1].op = "validate"
    /\ \A i, j \in DOMAIN calls : i < j => Rank(calls[i].op) <= Rank(calls[j].op)
    /\ \A op \in {"validate", "FinalizeBlock", "validateValidatorUpdates", "updateState"} :
          Cardinality(Made(op)) <= 1

\* updateState is reached only after the sanity check, which passed
UpdateStateAfterSanity ==
    \A j \in Made("updateState") :
        /\ \E i \in Made("validateValidatorUpdates") : i < j
        /\ validateValidatorUpdates(abciResponses.EndBlock.ValidatorUpdates,
                                    state.PubKeyTypes) = NoErr

\* validate and the up-front ISR length check accepted the block
Accepted ==
    /\ validate(preHeap, state, block) = NoErr
    /\ ~isrLengthError(fraudProofsEnabled, block)

C5_DeliverTxsLength ==
    Succeeded => ret.resp /\ Len(abciResponses.DeliverTxs) = Len(block.Txs)

\* ApplyBlock succeeded on a block with two transactions
C5_Witness == Succeeded /\ ret.resp /\ Len(block.Txs) = 2

\* C6: once execute has returned the bundle, DeliverTxs[i] is the i-th tx
\* result of the FinalizeBlock response, for every transaction i of the block.
C6_DeliverTxsAreTxResults ==
    ExecuteSucceeded =>
        \A i \in DOMAIN block.Txs :
            abciResponses.DeliverTxs[i] = finalizeBlockResponse.TxResults[i]

\* C7: when the FinalizeBlock response carries a number of tx results other
\* than the number of transactions, ApplyBlock has returned the length
\* error with no responses and the zero State, FinalizeBlock is the last call
\* it made (no capture, no fraud proof), and the block's ISR list is the one
\* it came with.
C7_LengthMismatchFails ==
    (/\ ~finalizeBlockResponse.nil
     /\ Len(finalizeBlockResponse.TxResults) # Len(block.Txs)) =>
        /\ Returned
        /\ ret = [state |-> ZeroState, resp |-> FALSE, err |-> ErrTxResultsLength]
        /\ Ops[Len(Ops)] = "FinalizeBlock"
        /\ block.IntermediateStateRoots = currentIsrs
        /\ heap = preHeap

\* the application answered a block of a producer with too few or too many
\* tx results, with fraud proofs enabled
C7_Witness ==
    /\ Returned
    /\ ret.err = ErrTxResultsLength
    /\ fraudProofsEnabled
    /\ block.Txs # <<>>
    /\ Len(finalizeBlockResponse.TxResults) # Len(block.Txs)

\* C8: with fraud proofs enabled, once execute has returned the bundle the
\* block's ISR list has as many entries as the block has transactions plus 3.
C8_IsrLength ==
    fraudProofsEnabled /\ ExecuteSucceeded =>
        /\ ~block.IntermediateStateRoots.nil
        /\ Len(block.IntermediateStateRoots.RawRootsList) = Len(block.Txs) + 3

\* execute wrote the captured list back to a block that came without one
C8_Witness ==
    /\ fraudProofsEnabled
    /\ ExecuteSucceeded
    /\ currentIsrs.nil
    /\ block.Txs # <<>>
    /\ block.IntermediateStateRoots = Roots(ISRs)

\* execute runs on a block that declares an ISR list, fraud proofs enabled
Follower == fraudProofsEnabled /\ ~currentIsrs.nil

\* the captured positions, from position from on, at which the captured ISR
\* differs from the declared one (positions count from 0)
Differing(from) ==
    {k \in from..(Len(ISRs) - 1) : ISRs[k + 1] # currentIsrs.RawRootsList[k + 1]}

\* execute found an ISR mismatch
FraudDetected == pc = "GenerateFraudProof" \/ Made("GenerateFraudProof") # {}

\* the GetAppHash calls capture the positions in order
CapturesInOrder ==
    LET captures == SelectSeq(calls, LAMBDA c : c.op = "GetAppHash")
    IN \A j \in DOMAIN captures : captures[j].pos = j - 1

\* C9 as stated: on a block that declares an ISR list, the positions are
\* captured in order, and when the captured and the declared list differ at a
\* position from 0 on, fraud is detected at the smallest such position, which
\* is the last one captured.
C9_FirstMismatchFromZero ==
    Follower =>
        /\ CapturesInOrder
        /\ FraudDetected <=> Differing(0) # {}
        /\ Differing(0) # {} =>
              /\ Differing(0) = {Len(ISRs) - 1}
              /\ currentIsrIndex = Len(ISRs) - 1

\* C9 amended: on a block that declares an ISR list, the positions are
\* captured in order, and when the captured and the declared list differ at a
\* position from 1 on, fraud is detected at the smallest such position, which
\* is the last one captured; position 0 is captured and not compared.
C9_FirstMismatchFromOne ==
    Follower =>
        /\ CapturesInOrder
        /\ FraudDetected <=> Differing(1) # {}
        /\ Differing(1) # {} =>
              /\ Differing(1) = {Len(ISRs) - 1}
              /\ currentIsrIndex = Len(ISRs) - 1
              /\ \A i \in Made("GenerateFraudProof") : calls[i].pos = Len(ISRs) - 1

\* the mismatch is at position 2 of a block with two transactions, and the
\* proof is about to be gossiped
C9_Witness ==
    /\ Follower
    /\ pc = "Broadcast"
    /\ Len(block.Txs) = 2
    /\ Differing(1) = {2}

\* C10: a GenerateFraudProof request for a mismatch at position k of a block
\* with n transactions carries the BeginBlock request; for k = 1 no DeliverTx
\* request and no EndBlock request; for 2 <= k <= n+1 the DeliverTx requests
\* of the first k-1 transactions in order and no EndBlock request; for
\* k = n+2 those of all transactions and the EndBlock request.
C10_FraudProofRequest ==
    \A i \in Made("GenerateFraudProof") :
        LET k == calls[i].pos
            n == Len(block.Txs)
        IN /\ calls[i].begin
           /\ k \in 1..(n + 2)
           /\ k = 1 => calls[i].txs = <<>> /\ ~calls[i].end
           /\ (2 <= k /\ k <= n + 1) =>
                 calls[i].txs = SubSeq(block.Txs, 1, k - 1) /\ ~calls[i].end
           /\ k = n + 2 => calls[i].txs = block.Txs /\ calls[i].end

\* a proof was requested for a mismatch after the first of two transactions
C10_Witness ==
    \E i \in Made("GenerateFraudProof") :
        /\ calls[i].pos = 2
        /\ Len(block.Txs) = 2
        /\ calls[i].txs = <<block.Txs[1]>>

\* C11: ApplyBlock returns ErrFraudProofGenerated only after GenerateFraudProof
\* answered with a proof for the detected mismatch and Broadcast then
\* succeeded; Broadcast is called only right after GenerateFraudProof
\* answered with a proof; when Broadcast fails the error returned is another
\* one; and once a fraud proof was requested no state and no responses are
\* returned.
C11_FraudProofGenerated ==
    /\ Returned /\ ret.err = ErrFraudProofGenerated =>
          /\ Len(calls) >= 2
          /\ calls[Len(calls) - 1].op = "GenerateFraudProof"
          /\ calls[Len(calls) - 1].result = "ok"
          /\ calls[Len(calls) - 1].pos = currentIsrIndex
          /\ Differing(1) = {currentIsrIndex}
          /\ calls[Len(calls)] = Step("Broadcast")
    /\ \A i \in Made("Broadcast") :
          /\ i > 1
          /\ calls[i - 1].op = "GenerateFraudProof"
          /\ calls[i - 1].result = "ok"
          /\ calls[i].result = "error" => Returned /\ ret.err # ErrFraudProofGenerated
    /\ \A i \in Made("GenerateFraudProof") :
          calls[i].result # "ok" => Returned /\ Made("Broadcast") = {}
    /\ Returned /\ Made("GenerateFraudProof") # {} =>
          /\ ret.err # NoErr
          /\ ret.state = ZeroState
          /\ ~ret.resp

\* the proof of a mismatch was gossiped and ApplyBlock returned the error
C11_Witness ==
    /\ Returned
    /\ ret.err = ErrFraudProofGenerated
    /\ Made("Broadcast") # {}

\* the GetAppHash calls that returned an application hash
Captured == {i \in Made("GetAppHash") : calls[i].result = "ok"}

\* a step of a running ApplyBlock call writes the block's ISR list
IsrListWritten ==
    /\ pc # "idle"
    /\ pc' # "idle"
    /\ block'.IntermediateStateRoots # block.IntermediateStateRoots

\* C12: a step of ApplyBlock changes the block's ISR list only when fraud
\* proofs are enabled, the list is nil and execute returns its bundle in that
\* step, and the list then is the list of the hashes GetAppHash returned, in
\* capture order; whenever execute has returned its bundle on a block that
\* came without a list, with fraud proofs enabled, the block carries that
\* list.
C12_IsrWriteBack ==
    [][/\ IsrListWritten =>
             /\ fraudProofsEnabled
             /\ block.IntermediateStateRoots.nil
             /\ ~ExecuteSucceeded
             /\ ExecuteSucceeded'
             /\ block' = [block EXCEPT !.IntermediateStateRoots = Roots(ISRs')]
             /\ Len(ISRs') = Cardinality(Captured')
       /\ (fraudProofsEnabled /\ currentIsrs'.nil /\ ExecuteSucceeded') =>
             block'.IntermediateStateRoots = Roots(ISRs')]_vars

\* ApplyBlock succeeded on a block of two transactions that came without an
\* ISR list and now carries the captured one, which has a non-zero hash
C12_Witness ==
    /\ Succeeded
    /\ fraudProofsEnabled
    /\ currentIsrs.nil
    /\ Len(block.Txs) = 2
    /\ block.IntermediateStateRoots = Roots(ISRs)
    /\ \E k \in DOMAIN ISRs : ISRs[k] # ZeroHash

\* the validator updates of the bundle execute returned fail the sanity check
SanityFailed ==
    /\ ExecuteSucceeded
    /\ validateValidatorUpdates(abciResponses.EndBlock.ValidatorUpdates,
                                state.PubKeyTypes) # NoErr

\* C13: when the validator updates of the application fail the sanity check,
\* ApplyBlock has returned the error of the check with the input state and no
\* responses, updateState did not run and the validator sets are untouched.
C13_SanityFailureReturnsInput ==
    SanityFailed =>
        /\ Returned
        /\ ret = [state |-> state, resp |-> FALSE, err |-> ErrValidatorUpdates]
        /\ Made("updateState") = {}
        /\ Ops[Len(Ops)] = "validateValidatorUpdates"
        /\ heap = preHeap

\* the application added a validator whose key type the state does not allow
C13_Witness ==
    /\ SanityFailed
    /\ Returned
    /\ ret.state = state
    /\ \E i \in DOMAIN abciResponses.EndBlock.ValidatorUpdates :
          /\ abciResponses.EndBlock.ValidatorUpdates[i].Power > 0
          /\ KeyType(abciResponses.EndBlock.ValidatorUpdates[i].PubKey)
                \notin state.PubKeyTypes

\* the validator updates of the bundle as updateState receives them
TranslatedUpdates == PB2TMValidatorUpdates(abciResponses.EndBlock.ValidatorUpdates).vals

\* C20: after a successful ApplyBlock the returned state's LastValidators is
\* a set equal to the input state's Validators, and its Validators and
\* NextValidators are one and the same set: the input state's NextValidators
\* with the validator updates applied and the proposer priority advanced,
\* held in an object of its own.
C20_ValidatorRotation ==
    Succeeded =>
        /\ heap[ret.state.LastValidators] = preHeap[state.Validators]
        /\ ret.state.Validators = ret.state.NextValidators
        /\ ret.state.NextValidators \notin StateRefs
        /\ heap[ret.state.NextValidators] =
              advancedValSet(changedValSet(preHeap[state.NextValidators],
                                           TranslatedUpdates))

\* ApplyBlock succeeded with a validator update that added a second validator
C20_Witness ==
    /\ Succeeded
    /\ TranslatedUpdates # <<>>
    /\ Len(heap[ret.state.Validators].Validators) = 2
    /\ Len(preHeap[state.NextValidators].Validators) = 1
    /\ heap[ret.state.LastValidators] = preHeap[state.Validators]

\* ------------------------------------------------------------------------
\* Commit

Committed == pc = "committed"
CommitSucceeded == Committed /\ commitRet.err = NoErr
CommitFailed == Committed /\ commitRet.err # NoErr

CriticalOrder == <<"Lock", "FlushAppConn", "Commit", "GetAppHash", "Update">>
CommitOps == [i \in DOMAIN commitCalls |-> commitCalls[i].op]
CommitMade(op) == {i \in DOMAIN commitCalls : commitCalls[i].op = op}

\* the position of the Unlock call, or one past the calls made so far
UnlockAt ==
    IF CommitMade("Unlock") = {} THEN Len(commitCalls) + 1
    ELSE Min(CommitMade("Unlock"))

\* the calls of the critical section that returned an error
CriticalFailures ==
    {i \in 1..(UnlockAt - 1) : commitCalls[i].result = "error"}

\* C14 as stated: the steps of Commit are Lock, FlushAppConn, Commit,
\* GetAppHash, Update, Unlock in this order, and each of them, Unlock
\* included, runs only if every step before it succeeded.
C14_StepsNeedEarlierSuccess ==
    \A i \in DOMAIN commitCalls :
        i <= UnlockAt =>
            /\ commitCalls[i].op = (CriticalOrder \o <<"Unlock">>)[i]
            /\ \A j \in 1..(i - 1) : commitCalls[j].result = "ok"

\* C14 amended: the calls of the critical section are a prefix of Lock,
\* FlushAppConn, Commit, GetAppHash, Update followed by Unlock; each call
\* before Unlock is made only if all calls before it succeeded; Unlock is
\* made exactly once, after Update succeeded or right after the call that
\* failed; and when a call failed Commit returns its error with an empty app
\* hash and retain height 0.
C14_CommitOrder ==
    /\ \A i \in 1..(UnlockAt - 1) :
          /\ i <= Len(CriticalOrder)
          /\ commitCalls[i].op = CriticalOrder[i]
          /\ \A j \in 1..(i - 1) : commitCalls[j].result = "ok"
    /\ Cardinality(CommitMade("Unlock")) <= 1
    /\ CommitMade("Unlock") # {} =>
          \/ UnlockAt = Len(CriticalOrder) + 1 /\ CriticalFailures = {}
          \/ CriticalFailures = {UnlockAt - 1}
    /\ pc \in {"publishEvents", "committed"} => CommitMade("Unlock") # {}
    /\ pc = "publishEvents" => CriticalFailures = {}
    /\ Committed =>
          IF CriticalFailures = {}
          THEN commitRet.err = NoErr
          ELSE /\ commitRet.err # NoErr
               /\ commitRet.appHash = EmptyHash
               /\ commitRet.retainHeight = 0

\* Commit failed at the mempool Update after the application had answered
\* with a retain height and an app hash
C14_Witness ==
    /\ CommitFailed
    /\ CommitOps = CriticalOrder \o <<"Unlock">>
    /\ commitLocals.RetainHeight = MaxRetainHeight
    /\ commitLocals.AppHash = MaxHash

\* C15: the mempool lock is held only between the Lock call of commit and
\* its return: it is free when Commit has returned, whatever call failed,
\* and it is free while CreateBlock, ApplyBlock and publishEvents run.
C15_LockOnlyInCriticalSection ==
    /\ mempoolLocked <=> pc \in {"FlushAppConn", "Commit", "CommitGetAppHash", "Update"}
    /\ mempoolLocked <=> (CommitMade("Lock") # {} /\ CommitMade("Unlock") = {})
    /\ Committed => ~mempoolLocked /\ CommitMade("Lock") # {}

\* Commit returned after FlushAppConn failed
C15_Witness ==
    /\ CommitFailed
    /\ CommitOps = <<"Lock", "FlushAppConn", "Unlock">>
    /\ ~mempoolLocked

\* the app hash GetAppHash answered with inside the critical section
GetAppHashAnswer == commitCalls[Min(CommitMade("GetAppHash"))].data

\* C16 as stated: after a successful Commit on the state ApplyBlock returned,
\* the State the caller passed has the AppHash that GetAppHash returned in the
\* critical section, and Commit returns this hash.
C16_CallerStateHasAppHash ==
    CommitSucceeded =>
        /\ ret.state.AppHash = GetAppHashAnswer
        /\ commitRet.appHash = GetAppHashAnswer

\* C16 amended: a successful Commit returns the hash GetAppHash returned in
\* the critical section and writes it into its own copy of the State, the
\* one the NewBlock event is published with; the State the caller passed
\* keeps the zero AppHash ApplyBlock gave it.
C16_CommitReturnsAppHash ==
    CommitSucceeded =>
        /\ commitRet.appHash = GetAppHashAnswer
        /\ commitLocals.state = [ret.state EXCEPT !.AppHash = GetAppHashAnswer]
        /\ ret.state.AppHash = ZeroHash
        /\ \A i \in CommitMade("PublishEventNewBlock") :
              commitCalls[i].data = GetAppHashAnswer

\* Commit succeeded with an app hash other than the zero hash and published
\* the block
C16_Witness ==
    /\ CommitSucceeded
    /\ GetAppHashAnswer = MaxHash
    /\ GetAppHashAnswer # ZeroHash
    /\ CommitMade("PublishEventNewBlock") # {}

\* the retain height the application answered the Commit request with
CommitAnswer == commitCalls[Min(CommitMade("Commit"))].data

\* the publish calls Commit made, in order
PublishCalls == SubSeq(commitCalls, UnlockAt + 1, Len(commitCalls))
PublishFailures == {i \in DOMAIN PublishCalls : PublishCalls[i].result = "error"}

\* C17: a publish call is made only after the critical section has ended
\* with all its calls, Update included, succeeded and the lock released;
\* whatever publish calls fail, a Commit whose critical section succeeded
\* returns the app hash of GetAppHash, the retain height of the application
\* and a nil error; and an executor without event bus publishes nothing and
\* its Commit returns the same.
C17_PublishAfterCommit ==
    /\ PublishCalls # <<>> =>
          /\ eventBus
          /\ ~mempoolLocked
          /\ CriticalFailures = {}
          /\ [i \in 1..UnlockAt |-> commitCalls[i].op] = CriticalOrder \o <<"Unlock">>
    /\ (Committed /\ CriticalFailures = {}) =>
          commitRet = [appHash |-> GetAppHashAnswer,
                       retainHeight |-> CommitAnswer,
                       err |-> NoErr]
    /\ (Committed /\ ~eventBus) => PublishCalls = <<>>

\* Commit returned after every publish call had failed
C17_Witness ==
    /\ CommitSucceeded
    /\ PublishCalls # <<>>
    /\ PublishFailures = DOMAIN PublishCalls
    /\ commitRet.retainHeight = MaxRetainHeight

\* a Commit without event bus succeeded
C17_NoEventBusWitness ==
    /\ CommitSucceeded
    /\ ~eventBus
    /\ PublishCalls = <<>>

\* the publish calls of one operation
Published(op) == {i \in DOMAIN PublishCalls : PublishCalls[i].op = op}

\* C18: when Commit has published the events of a block, the publish calls
\* are one NewBlock, one NewBlockHeader, one NewEvidence per evidence item
\* and one Tx event per transaction, in this order, the Tx event of the
\* transaction at position i carrying index i, this transaction and
\* DeliverTxs[i] (i counted from 0); this holds whichever of the calls
\* failed.
C18_PublishOrder ==
    (Committed /\ eventBus /\ CriticalFailures = {}) =>
        LET n == Len(block.Txs)
            ev == commitLocals.Evidence
        IN /\ Len(PublishCalls) = 2 + ev + n
           /\ Published("PublishEventNewBlock") = {1}
           /\ Published("PublishEventNewBlockHeader") = {2}
           /\ Published("PublishEventNewEvidence") = 3..(2 + ev)
           /\ Published("PublishEventTx") = (3 + ev)..(2 + ev + n)
           /\ \A i \in 1..n :
                 /\ PublishCalls[2 + ev + i].index = i - 1
                 /\ PublishCalls[2 + ev + i].tx = block.Txs[i]
                 /\ PublishCalls[2 + ev + i].data = abciResponses.DeliverTxs[i]

\* the events of a block with evidence and MaxTxs transactions were
\* published although the NewBlock call failed
C18_Witness ==
    /\ CommitSucceeded
    /\ Len(block.Txs) = MaxTxs
    /\ commitLocals.Evidence = MaxEvidence
    /\ PublishFailures = {1}
    /\ Len(PublishCalls) = 2 + MaxEvidence + MaxTxs

\* CreateBlock has returned a block to the producer
Created == pc = "created"

\* C19: in the cycle CreateBlock, ApplyBlock, Commit, the block CreateBlock
\* produces for the next height from the producer's State (the genesis
\* State, or the State stored after ApplyBlock and Commit of the block
\* before) has the versions, the height, the AppHash, the LastResultsHash
\* and the AggregatorsHash validate asks of a block on this State, so
\* validate accepts it once it passes Block.ValidateBasic.
C19_CreatedBlockValidates ==
    Created =>
        /\ block.Header.Version = state.Version
        /\ block.Header.Height = nextHeight(state)
        /\ block.Header.AppHash = state.AppHash
        /\ block.Header.LastResultsHash = state.LastResultsHash
        /\ block.Header.AggregatorsHash = ValSetHash(heap[state.Validators])
        /\ validate(heap, state, block) \in {NoErr, "ValidateBasic failed"}
        /\ ValidateBasic(block) => validate(heap, state, block) = NoErr

\* a block created on a State stored after a Commit that returned an app
\* hash other than the zero hash, with a validator set changed by the block
\* before
C19_Witness ==
    /\ Created
    /\ ValidateBasic(block)
    /\ state.LastBlockHeight > 0
    /\ block.Header.Height = state.LastBlockHeight + 1
    /\ state.AppHash = MaxHash
    /\ state.AppHash # ZeroHash
    /\ Len(heap[state.Validators].Validators) > 0

\* ------------------------------------------------------------------------
\* updateState and the validator set

\* updateState ran in the ApplyBlock call that returned
UpdateStateRan == Returned /\ Made("updateState") # {}

\* the validator set updateState started from, and its size
InputNextValidators == preHeap[state.NextValidators]
InputSize == Len(InputNextValidators.Validators)

\* C21: when the validator updates of the block are empty, the state that
\* updateState returns has one set as NextValidators and Validators, with
\* the members and voting powers of the input state's NextValidators in the
\* same order, the proposer priority advanced by one round when the set has
\* members and nothing changed when it has none, and the input state's
\* LastHeightValidatorsChanged.
C21_EmptyUpdates ==
    (UpdateStateRan /\ TranslatedUpdates = <<>>) =>
        /\ Succeeded
        /\ ret.state.NextValidators = ret.state.Validators
        /\ ValSetHash(heap[ret.state.NextValidators]) = ValSetHash(InputNextValidators)
        /\ heap[ret.state.NextValidators] =
              IF InputSize > 0 THEN IncrementProposerPriority(InputNextValidators)
              ELSE InputNextValidators
        /\ ret.state.LastHeightValidatorsChanged = state.LastHeightValidatorsChanged

\* a block without validator updates was applied on a set of two validators,
\* whose priorities moved
C21_Witness ==
    /\ Succeeded
    /\ TranslatedUpdates = <<>>
    /\ InputSize = 2
    /\ heap[ret.state.NextValidators] # InputNextValidators
    /\ IncrementProposerPriority(heap[ret.state.NextValidators])
          # heap[ret.state.NextValidators]

\* what updateState returned in the ApplyBlock call that returned
UpdateStateResult == updateState(preHeap, state, block, abciResponses, TranslatedUpdates)

\* C22: the state updateState returns has LastHeightValidatorsChanged equal
\* to the block's height plus 2 when a non-empty list of validator updates
\* was applied to a validator set with members, also when no member is
\* left, and the input state's LastHeightValidatorsChanged in every other
\* case: no updates, a set without members, or updates that failed to apply.
C22_LastHeightValidatorsChanged ==
    UpdateStateRan =>
        /\ UpdateStateResult.state.LastHeightValidatorsChanged =
              IF /\ UpdateStateResult.err = NoErr
                 /\ TranslatedUpdates # <<>>
                 /\ InputSize > 0
              THEN block.Header.Height + 2
              ELSE state.LastHeightValidatorsChanged
        /\ Succeeded => ret.state = UpdateStateResult.state
        /\ Succeeded <=> UpdateStateResult.err = NoErr

\* a block whose updates removed the only validator was applied
C22_Witness ==
    /\ Succeeded
    /\ TranslatedUpdates # <<>>
    /\ InputSize = 1
    /\ Len(heap[ret.state.NextValidators].Validators) = 0
    /\ ret.state.LastHeightValidatorsChanged = block.Header.Height + 2
    /\ ret.state.LastHeightValidatorsChanged # state.LastHeightValidatorsChanged

\* the validator updates remove every member of the input set and add none
RemovesEveryValidator ==
    /\ InputSize > 0
    /\ TranslatedUpdates # <<>>
    /\ \A i \in DOMAIN TranslatedUpdates : TranslatedUpdates[i].VotingPower = 0
    /\ {TranslatedUpdates[i].Address : i \in DOMAIN TranslatedUpdates}
          = Addresses(InputNextValidators)
    /\ Len(TranslatedUpdates) = InputSize

\* the validator updates cannot be applied to the input set for another
\* reason: they remove a key that is no member
RemovesUnknownValidator ==
    /\ InputSize > 0
    /\ \E i \in DOMAIN TranslatedUpdates :
          /\ TranslatedUpdates[i].VotingPower = 0
          /\ TranslatedUpdates[i].Address \notin Addresses(InputNextValidators)

\* C23: when the validator updates would leave a set with members without
\* any, updateState succeeds and the returned state has as Validators and
\* NextValidators one set with no members and no proposer; when the updates
\* cannot be applied for another reason updateState fails and ApplyBlock
\* returns its error.
C23_EmptySetSubstituted ==
    UpdateStateRan =>
        /\ RemovesEveryValidator =>
              /\ Succeeded
              /\ ret.state.Validators = ret.state.NextValidators
              /\ heap[ret.state.NextValidators] = EmptyValSet
        /\ RemovesUnknownValidator =>
              /\ Failed
              /\ ret.err = "failed to find validator to remove"
              /\ ret.state = ZeroState
              /\ ~ret.resp

\* the only validator was removed
C23_Witness ==
    /\ Succeeded
    /\ RemovesEveryValidator
    /\ heap[ret.state.NextValidators] = EmptyValSet
    /\ InputNextValidators.Proposer # NIL

\* a removal of a key that is no validator made ApplyBlock fail
C23_FailureWitness ==
    /\ Failed
    /\ UpdateStateRan
    /\ RemovesUnknownValidator

\* ApplyBlock returned for a state whose validator set has no members, after
\* the application answered FinalizeBlock with validator updates
UpdatesOnEmptySet ==
    /\ Returned
    /\ InputSize = 0
    /\ ~finalizeBlockResponse.nil
    /\ finalizeBlockResponse.ValidatorUpdates # <<>>

\* C24 as stated: on a state with an empty validator set every ApplyBlock
\* whose application response carries validator updates fails with
\* ErrAddingValidatorToBased.
C24_FailsWithErrAddingValidatorToBased ==
    UpdatesOnEmptySet => Failed /\ ret.err = ErrAddingValidatorToBased

\* C24 amended: on a state with an empty validator set every ApplyBlock
\* whose application response carries validator updates fails, with
\* ErrAddingValidatorToBased when updateState is reached and with the error
\* of the step that failed before it otherwise; the Validators and the
\* NextValidators of a state are empty together, and a successful ApplyBlock
\* on such a state returns a state whose sets are empty.
C24_EmptySetStaysEmpty ==
    /\ UpdatesOnEmptySet =>
          /\ Failed
          /\ UpdateStateRan <=> ret.err = ErrAddingValidatorToBased
    /\ Len(heap[state.Validators].Validators) = 0
          <=> Len(heap[state.NextValidators].Validators) = 0
    /\ (Succeeded /\ InputSize = 0) =>
          /\ Len(heap[ret.state.Validators].Validators) = 0
          /\ Len(heap[ret.state.NextValidators].Validators) = 0

\* validator updates were refused on a set that an earlier block had emptied
C24_Witness ==
    /\ UpdatesOnEmptySet
    /\ ret.err = ErrAddingValidatorToBased
    /\ state.LastBlockHeight > 0
    /\ state.LastHeightValidatorsChanged = state.LastBlockHeight + 2

\* ------------------------------------------------------------------------
\* validate and the validator-update sanity check

\* ApplyBlock has been called and has not been left behind by the caller
Called == calls # <<>>

\* the conditions under which a block is accepted on the state the running
\* ApplyBlock was called with, in the order they are stated, each with the
\* error reported when it does not hold
Conditions ==
    <<[holds |-> ValidateBasic(block), err |-> "ValidateBasic failed"],
      [holds |-> block.Header.Version = state.Version, err |-> "block version mismatch"],
      [holds |-> block.Header.Height =
                    IF state.LastBlockHeight = 0 THEN state.InitialHeight
                    ELSE state.LastBlockHeight + 1,
       err |-> IF state.LastBlockHeight = 0 THEN "initial block height mismatch"
               ELSE "block height mismatch"],
      [holds |-> block.Header.AppHash = state.AppHash, err |-> "AppHash mismatch"],
      [holds |-> block.Header.LastResultsHash = state.LastResultsHash,
       err |-> "LastResultsHash mismatch"],
      [holds |-> block.Header.AggregatorsHash = ValSetHash(preHeap[state.Validators]),
       err |-> "AggregatorsHash mismatch"]>>

Unmet == {i \in DOMAIN Conditions : ~Conditions[i].holds}

\* C25: validate accepts the block on the state exactly when the block
\* passes the basic validation, the header's versions equal the state's, its
\* height is InitialHeight at LastBlockHeight 0 and LastBlockHeight + 1
\* otherwise, and its AppHash, LastResultsHash and AggregatorsHash equal the
\* state's AppHash, its LastResultsHash and the hash of its validator set;
\* a rejected block is reported with the error of the first of these
\* conditions that does not hold, and ApplyBlock returns this error without
\* a further step.
C25_ValidateAccepts ==
    Called =>
        /\ validate(preHeap, state, block) = NoErr <=> Unmet = {}
        /\ Unmet # {} =>
              /\ validate(preHeap, state, block) = Conditions[Min(Unmet)].err
              /\ Returned
              /\ ret.err = Conditions[Min(Unmet)].err
              /\ Ops = <<"validate">>
        /\ (Returned /\ Unmet = {}) =>
              ret.err \notin {Conditions[i].err : i \in DOMAIN Conditions}

\* a block that meets neither the version nor the app hash nor the
\* aggregators hash condition was rejected for its version
C25_Witness ==
    /\ Returned
    /\ Unmet = {2, 4, 6}
    /\ ret.err = "block version mismatch"

\* the sanity check has returned for the updates of the bundle
Checked == pc = "checked"
CheckedUpdates == abciResponses.EndBlock.ValidatorUpdates

\* an update the sanity check does not accept, and the error it is reported
\* with
Offending(u) ==
    \/ u.Power < 0
    \/ /\ u.Power # 0
       /\ \/ u.PubKey = UndecodableKey
          \/ KeyType(u.PubKey) \notin state.PubKeyTypes
OffenceOf(u) ==
    IF u.Power < 0 THEN "voting power can't be negative"
    ELSE IF u.PubKey = UndecodableKey THEN ErrPubKey
    ELSE "unsupported pubkey type"
Offenders == {i \in DOMAIN CheckedUpdates : Offending(CheckedUpdates[i])}

\* C26: the sanity check accepts a list of validator updates exactly when
\* no update has a negative power and every update with a power other than
\* 0 has a key that decodes to a type listed in the PubKeyTypes of the
\* consensus params; the key of an update with power 0 is not looked at;
\* the error of a rejected list is that of its first offending update.
C26_SanityCheck ==
    Checked =>
        /\ ret.err = NoErr <=> Offenders = {}
        /\ Offenders # {} => ret.err = OffenceOf(CheckedUpdates[Min(Offenders)])

\* a list was rejected for the key type of its first update although its
\* second update has a negative power
C26_Witness ==
    /\ Checked
    /\ Offenders = {1, 2}
    /\ CheckedUpdates[2].Power < 0
    /\ ret.err = "unsupported pubkey type"

\* a removal with a key that does not decode was accepted
C26_RemovalWitness ==
    /\ Checked
    /\ ret.err = NoErr
    /\ \E i \in DOMAIN CheckedUpdates :
          CheckedUpdates[i].Power = 0 /\ CheckedUpdates[i].PubKey = UndecodableKey

\* ------------------------------------------------------------------------
\* execute: the last commit, the ISR index and the response callback

\* the members of the Validators of the state ApplyBlock was called with
InputValidators == preHeap[state.Validators].Validators

\* C28: a FinalizeBlock request for a block of another height than
\* InitialHeight is made only when the last commit of the block has as many
\* signatures as state.Validators has members, and its DecidedLastCommit
\* has one vote per member, in the order of the members, with the signature
\* at the same position; the request for a block of height InitialHeight
\* has no votes; and for a block of another height whose commit has another
\* size no FinalizeBlock request is made.
C28_LastCommitInfo ==
    Called =>
        /\ \A i \in Made("FinalizeBlock") :
              IF block.Header.Height = state.InitialHeight
              THEN calls[i].votes = <<>>
              ELSE /\ block.CommitSigs = Len(InputValidators)
                   /\ Len(calls[i].votes) = Len(InputValidators)
                   /\ \A k \in DOMAIN InputValidators :
                         /\ calls[i].votes[k].Validator =
                               <<InputValidators[k].Address, InputValidators[k].VotingPower>>
                         /\ calls[i].votes[k].Signature = k
        /\ (/\ block.Header.Height # state.InitialHeight
            /\ block.CommitSigs # Len(InputValidators)) =>
              /\ Made("FinalizeBlock") = {}
              /\ ~Succeeded

\* FinalizeBlock was requested for a block after the first one, with the
\* votes of two validators
C28_Witness ==
    /\ Made("FinalizeBlock") # {}
    /\ block.Header.Height # state.InitialHeight
    /\ Len(InputValidators) = 2
    /\ Len(calls[Min(Made("FinalizeBlock"))].votes) = 2

\* a block whose commit has a signature too many stopped execute
C28_PanicWitness ==
    /\ pc = "panic"
    /\ block.Header.Height # state.InitialHeight
    /\ block.CommitSigs # Len(InputValidators)

\* the captures after which execute compared the captured ISR with the
\* declared one: the GetAppHash calls that answered, but for the capture
\* before the block is executed
Compares ==
    LET captures == SelectSeq(calls, LAMBDA c : c.op = "GetAppHash" /\ c.result = "ok")
    IN IF captures = <<>> THEN <<>> ELSE Tail(captures)

\* the block came with an ISR list of another length than len(Txs) + 3
WrongIsrLength ==
    /\ ~block.IntermediateStateRoots.nil
    /\ Len(block.IntermediateStateRoots.RawRootsList) # Len(block.Txs) + 3

\* C29: with fraud proofs enabled a block that declares an ISR list of
\* another length than len(Txs) + 3 is rejected with an error before any
\* application call; on a block with an accepted list the declared list is
\* read at the indices 1, 2, ... in this order, each once, never beyond
\* len(Txs) + 2, which is the last index of the list, and at all of them
\* when execute returns the bundle.
C29_IsrIndexInBounds ==
    (Called /\ fraudProofsEnabled) =>
        /\ (WrongIsrLength /\ validate(preHeap, state, block) = NoErr) =>
              /\ Failed
              /\ ret.err = ErrISRLength
              /\ Ops = <<"validate">>
        /\ Follower =>
              /\ Len(currentIsrs.RawRootsList) = Len(block.Txs) + 3
              /\ \A j \in DOMAIN Compares :
                    /\ Compares[j].pos = j
                    /\ j <= Len(block.Txs) + 2
                    /\ j + 1 \in DOMAIN currentIsrs.RawRootsList
              /\ ExecuteSucceeded => Len(Compares) = Len(block.Txs) + 2

\* execute compared every ISR of a block with MaxTxs transactions
C29_Witness ==
    /\ Follower
    /\ ExecuteSucceeded
    /\ Len(block.Txs) = MaxTxs
    /\ Len(Compares) = MaxTxs + 2
    /\ Compares[MaxTxs + 2].pos = MaxTxs + 2

\* a block with an ISR list that is too short was rejected
C29_RejectedWitness ==
    /\ fraudProofsEnabled
    /\ Failed
    /\ ret.err = ErrISRLength
    /\ Len(block.IntermediateStateRoots.RawRootsList) = Len(block.Txs) + 2

\* C30: whenever the response callback runs for a DeliverTx response, its
\* write index txIdx is below the length of DeliverTxs, the number of
\* transactions of the block of the running execute, so that it writes to a
\* slot of the bundle of this execute.
C30_WriteIndexBelowLength ==
    [][DeliverTxResponse =>
          /\ txIdx < Len(block.Txs)
          /\ txIdx < Len(abciResponses.DeliverTxs)
          /\ pc' # "panic"]_vars



\* ------------------------------------------------------------------------
\* The retry of ApplyBlock and Commit after a failed Commit

\* the running attempt is the retry of the recorded first attempt
Retrying == firstAttempt.n = 2

\* what ApplyBlock returned is what it returned to the first attempt
SameOutcome ==
    /\ Deref(heap, ret.state) = firstAttempt.state
    /\ ret.resp
    /\ abciResponses = firstAttempt.resp
    /\ block = firstAttempt.block

\* C27: when Commit fails after ApplyBlock succeeded the caller's State and
\* its validator sets are those ApplyBlock was called with; the retry of
\* ApplyBlock on the same block and State, the application giving the answers
\* of the first attempt, succeeds and returns the State and the responses of
\* the first attempt, and so does a retry whose Commit succeeds, also when
\* the first attempt filled the ISR list of the block.
C27_RetryAfterFailedCommit ==
    /\ (CommitFailed /\ firstAttempt.n = 1) =>
          /\ Deref(heap, state) = firstAttempt.input
          /\ block = firstAttempt.block
    /\ pc = "retry" =>
          /\ Deref(heap, state) = firstAttempt.input
          /\ block = firstAttempt.block
    /\ (Retrying /\ Returned /\ SameAnswers) => Succeeded /\ SameOutcome
    /\ (Retrying /\ CommitSucceeded /\ firstAttempt.same) => SameOutcome

\* the retry of a block whose ISR list the first attempt filled got the same
\* answers and was committed
C27_Witness ==
    /\ Retrying
    /\ CommitSucceeded
    /\ firstAttempt.same
    /\ fraudProofsEnabled
    /\ Len(block.Txs) > 0
    /\ ~block.IntermediateStateRoots.nil
    /\ block.IntermediateStateRoots.RawRootsList = firstAttempt.ISRs

\* the retry without fraud proofs got the same answers and returned
C27_PlainWitness ==
    /\ Retrying
    /\ Succeeded
    /\ SameAnswers
    /\ ~fraudProofsEnabled
    /\ finalizeBlockResponse.ValidatorUpdates # <<>>


\* ------------------------------------------------------------------------
\* execute with fraud proofs disabled

\* the operations execute makes only for fraud proofs
FraudProofOps == {"GetAppHash", "GenerateFraudProof", "Broadcast"}

\* C31: with fraud proofs disabled no step of ApplyBlock calls GetAppHash or
\* GenerateFraudProof on the application or Broadcast on the fraud-proof
\* service, ApplyBlock returns neither ErrFraudProofGenerated nor another
\* error of fraud-proof generation nor the error of the ISR length check, and
\* no step changes the ISR list of the block, whatever list it carries.
C31_FraudProofsDisabled ==
    [][~fraudProofsEnabled =>
          /\ \A i \in DOMAIN calls' : calls'[i].op \notin FraudProofOps
          /\ pc' \notin {"GetAppHash0", "GetAppHash", "GenerateFraudProof", "Broadcast"}
          /\ ret'.err \notin {ErrFraudProofGenerated, ErrISRLength, ErrBroadcast,
                              ErrNoFraudProof}
          /\ ~IsrListWritten]_vars

\* ApplyBlock succeeded without fraud proofs on a block with transactions
\* whose ISR list has the wrong length
C31_Witness ==
    /\ Succeeded
    /\ ~fraudProofsEnabled
    /\ Len(block.Txs) > 0
    /\ ~block.IntermediateStateRoots.nil
    /\ Len(block.IntermediateStateRoots.RawRootsList) # Len(block.Txs) + 3
    /\ block.IntermediateStateRoots = currentIsrs

\* ApplyBlock succeeded without fraud proofs on a block that declares a
\* non-zero root in a list of the expected length
C31_MismatchWitness ==
    /\ Succeeded
    /\ ~fraudProofsEnabled
    /\ ~block.IntermediateStateRoots.nil
    /\ Len(block.IntermediateStateRoots.RawRootsList) = Len(block.Txs) + 3
    /\ \E k \in DOMAIN block.IntermediateStateRoots.RawRootsList :
          block.IntermediateStateRoots.RawRootsList[k] # ZeroHash

====
